---- MODULE Spec2Model ----
(***************************************************************************)
(* Model of the prerequisite-text parser of uiuc-course-graph:             *)
(*   scripts/parse_course_prereqs.py  (scanner, clause parser, router)     *)
(*   scripts/build_final_parsed.py    (flag classifier, driver)            *)
(* Texts are sequences of one-character strings; every regular expression  *)
(* of the source is evaluated on the characters, as Python's re does.      *)
(***************************************************************************)
EXTENDS Integers, Sequences, FiniteSets, TLC

\* grps records the value of grp at each turn of the clause loop; bucket is
\* the key of analyze_prereqs.analyze's results the record is put under; out
\* is the list of the records build_final_parsed.main has built
\* graph is what build_graph_assets.build_graph returns for the records of out.
\* The other variables are the state of fetch_uiuc_courses.main once the
\* subject list is known: catalog is what the server lists under each subject,
\* futures the calls of process_subject handed to the executor, fetched the
\* records get_course_details has returned, written the files written and
\* exit_status the value the process ends with; completed lists the futures
\* in the order as_completed has yielded them. notes is the list of clauses
\* build_final_parsed.main keeps beside the trees; G and R are the graphs of
\* reduce_and_cluster: the hard graph and its reduction
VARIABLES text, pc, raw, clauses, ci, grps, hard_groups, coreq_groups, ast, flags,
          bucket, out, graph, notes, G, R,
          subject_ids, catalog, futures, all_course_records, fetched, written,
          exit_status, completed

vars == <<text, pc, raw, clauses, ci, grps, hard_groups, coreq_groups, ast, flags,
          bucket, out, graph, notes, G, R,
          subject_ids, catalog, futures, all_course_records, fetched, written,
          exit_status, completed>>

\* the state of the parsing scripts
parseVars == <<text, pc, raw, clauses, ci, grps, hard_groups, coreq_groups, ast,
               flags, bucket, out, graph, notes, G, R>>

\* the state of the fetching script
fetchVars == <<subject_ids, catalog, futures, all_course_records, fetched, written,
               exit_status, completed>>

\* the fetching script is not part of the run
NoFetch ==
    /\ subject_ids = <<>>
    /\ catalog = <<>>
    /\ futures = <<>>
    /\ all_course_records = <<>>
    /\ fetched = <<>>
    /\ written = <<>>
    /\ exit_status = "none"
    /\ completed = <<>>

(***************************************************************************)
(* Bounds of the model.                                                    *)
(***************************************************************************)
\* the longest input text, counted in lexemes
MaxLex == 4

(***************************************************************************)
(* Characters.                                                             *)
(***************************************************************************)
UpperChars == {"A", "B", "C", "D", "E", "F", "G", "H", "I", "J", "K", "L", "M",
               "N", "O", "P", "Q", "R", "S", "T", "U", "V", "W", "X", "Y", "Z"}

LowerChars == {"a", "b", "c", "d", "e", "f", "g", "h", "i", "j", "k", "l", "m",
               "n", "o", "p", "q", "r", "s", "t", "u", "v", "w", "x", "y", "z"}

DigitChars == {"0", "1", "2", "3", "4", "5", "6", "7", "8", "9"}

\* \s of Python's re
SpaceChars == {" ", "\t"}

\* \w of Python's re
WordChars == UpperChars \cup LowerChars \cup DigitChars \cup {"_"}

LowerOf ==
    ("A" :> "a") @@ ("B" :> "b") @@ ("C" :> "c") @@ ("D" :> "d") @@ ("E" :> "e") @@
    ("F" :> "f") @@ ("G" :> "g") @@ ("H" :> "h") @@ ("I" :> "i") @@ ("J" :> "j") @@
    ("K" :> "k") @@ ("L" :> "l") @@ ("M" :> "m") @@ ("N" :> "n") @@ ("O" :> "o") @@
    ("P" :> "p") @@ ("Q" :> "q") @@ ("R" :> "r") @@ ("S" :> "s") @@ ("T" :> "t") @@
    ("U" :> "u") @@ ("V" :> "v") @@ ("W" :> "w") @@ ("X" :> "x") @@ ("Y" :> "y") @@
    ("Z" :> "z")

\* str.lower()
Lower(s) == [i \in 1..Len(s) |-> IF s[i] \in UpperChars THEN LowerOf[s[i]] ELSE s[i]]

\* s[a:b] of Python, offsets counted from 0
Slice(s, a, b) == IF b > a THEN SubSeq(s, a + 1, b) ELSE <<>>

\* \b at offset p of s: exactly one of the two neighbours is a word character
WordBoundary(s, p) ==
    (p > 0 /\ s[p] \in WordChars) # (p < Len(s) /\ s[p + 1] \in WordChars)

\* the pattern pat occurs in s at offset p
OccursAt(s, pat, p) ==
    /\ p + Len(pat) <= Len(s)
    /\ \A j \in 1..Len(pat) : s[p + j] = pat[j]

\* pat in s
Contains(s, pat) == \E p \in 0..(Len(s) - Len(pat)) : OccursAt(s, pat, p)

\* re.search(r"\bpat\b", s)
ContainsWord(s, pat) ==
    \E p \in 0..(Len(s) - Len(pat)) :
        /\ OccursAt(s, pat, p)
        /\ WordBoundary(s, p)
        /\ WordBoundary(s, p + Len(pat))

\* the length of the run of characters of class cls that starts at offset p
RECURSIVE RunLen(_, _, _)
RunLen(s, p, cls) ==
    IF p < Len(s) /\ s[p + 1] \in cls THEN 1 + RunLen(s, p + 1, cls) ELSE 0

(***************************************************************************)
(* normalize_space and the splits.                                         *)
(***************************************************************************)
RECURSIVE CollapseSpace(_, _)
\* re.sub(r"\s+", " ", s): every run of whitespace becomes one blank
CollapseSpace(s, p) ==
    IF p >= Len(s) THEN <<>>
    ELSE IF s[p + 1] \in SpaceChars
         THEN <<" ">> \o CollapseSpace(s, p + RunLen(s, p, SpaceChars))
         ELSE <<s[p + 1]>> \o CollapseSpace(s, p + 1)

RECURSIVE StripLeft(_)
StripLeft(s) ==
    IF s # <<>> /\ Head(s) \in SpaceChars THEN StripLeft(Tail(s)) ELSE s

RECURSIVE StripRight(_)
StripRight(s) ==
    IF s # <<>> /\ s[Len(s)] \in SpaceChars
    THEN StripRight(SubSeq(s, 1, Len(s) - 1)) ELSE s

\* str.strip()
Strip(s) == StripRight(StripLeft(s))

normalize_space(s) == Strip(CollapseSpace(s, 0))

RECURSIVE SplitRuns(_, _, _, _)
\* re.split(sep+, s): the pieces between the maximal runs of sep, the empty
\* pieces at either end included
SplitRuns(s, sep, p, cur) ==
    IF p >= Len(s) THEN <<cur>>
    ELSE IF s[p + 1] = sep
         THEN <<cur>> \o SplitRuns(s, sep, p + RunLen(s, p, {sep}), <<>>)
         ELSE SplitRuns(s, sep, p + 1, Append(cur, s[p + 1]))

\* a normalized piece is kept unless it is empty
KeepNonEmpty(n) == IF n # <<>> THEN <<n>> ELSE <<>>

\* [normalize_space(c) for c in re.split(sep+, s) if normalize_space(c)]
RECURSIVE NormalizedNonEmpty(_)
NormalizedNonEmpty(pieces) ==
    IF pieces = <<>> THEN <<>>
    ELSE KeepNonEmpty(normalize_space(Head(pieces))) \o NormalizedNonEmpty(Tail(pieces))

(***************************************************************************)
(* The course-token scanner.                                               *)
(***************************************************************************)
\* COURSE_RE tried at offset p: the lengths <<letters, blanks, digits, suffix>>
\* of the ways \b([A-Z]{2,4})\s*(\d{2,3}[A-Z]?)\b matches there
CourseMatchesAt(s, p) ==
    IF ~(WordBoundary(s, p) /\ p < Len(s) /\ s[p + 1] \in UpperChars) THEN {}
    ELSE
    {m \in UNION {
        UNION {
          {<<nl, ns, nd, nx>> : nd \in 2..3, nx \in 0..1}
          : ns \in 0..RunLen(s, p + nl, SpaceChars)}
        : nl \in {k \in 2..4 : k <= RunLen(s, p, UpperChars)}} :
        LET d == p + m[1] + m[2]
            e == d + m[3] + m[4]
        IN  /\ e <= Len(s)
            /\ \A j \in 1..m[3] : s[d + j] \in DigitChars
            /\ m[4] = 1 => s[e] \in UpperChars
            /\ WordBoundary(s, e)}

\* each quantifier is greedy: the match the engine reports is the first in
\* the order most letters, most blanks, most digits, suffix taken
Prefer(m, n) ==
    \/ m[1] > n[1]
    \/ m[1] = n[1] /\ m[2] > n[2]
    \/ m[1] = n[1] /\ m[2] = n[2] /\ m[3] > n[3]
    \/ m[1] = n[1] /\ m[2] = n[2] /\ m[3] = n[3] /\ m[4] >= n[4]

\* the match the engine reports among ms
BestMatch(ms) == CHOOSE x \in ms : \A y \in ms : Prefer(x, y)

\* the end offset of the match m found at offset p
MatchEnd(p, m) == p + m[1] + m[2] + m[3] + m[4]

\* (f"{m.group(1)} {m.group(2)}", m.start(), m.end()) for the match m at p
SpanOf(s, p, m) ==
    <<Slice(s, p, p + m[1]) \o <<" ">> \o Slice(s, p + m[1] + m[2], MatchEnd(p, m)),
      p, MatchEnd(p, m)>>

RECURSIVE ScanFrom_matched_text(_, _)

\* the scanner step reporting the matched text itself (m.group(0))
ScanAt_matched_text(s, p, ms) ==
    IF ms = {} THEN ScanFrom_matched_text(s, p + 1)
    ELSE <<<<Slice(s, p, MatchEnd(p, BestMatch(ms))), p, MatchEnd(p, BestMatch(ms))>>>>
           \o ScanFrom_matched_text(s, MatchEnd(p, BestMatch(ms)))

\* the scanner reporting the matched text itself as the course
ScanFrom_matched_text(s, p) ==
    IF p >= Len(s) THEN <<>> ELSE ScanAt_matched_text(s, p, CourseMatchesAt(s, p))

RECURSIVE ScanFrom(_, _)

\* one step of the scan: no match at p, or the span of the match and the
\* scan resumed at its end
ScanAt(s, p, ms) ==
    IF ms = {} THEN ScanFrom(s, p + 1)
    ELSE <<SpanOf(s, p, BestMatch(ms))>> \o ScanFrom(s, MatchEnd(p, BestMatch(ms)))

\* COURSE_RE.finditer(s) from offset p: leftmost matches, not overlapping
ScanFrom(s, p) ==
    IF p >= Len(s) THEN <<>> ELSE ScanAt(s, p, CourseMatchesAt(s, p))

find_course_spans(s) == ScanFrom(s, 0)

(***************************************************************************)
(* Requirement trees.                                                      *)
(***************************************************************************)
EMPTY == [op |-> "EMPTY"]

COURSE(c) == [op |-> "COURSE", course |-> c]

AND(items) == [op |-> "AND", items |-> items]

OR(items) == [op |-> "OR", items |-> items]

\* what a list index out of range evaluates to
IndexError == [op |-> "IndexError"]

\* xs[0]
First(xs) == IF xs = <<>> THEN IndexError ELSE xs[1]

\* the items of the distinct courses of spans, each at its first occurrence
CourseItems_distinct(spans) ==
    LET kept == SelectSeq([i \in 1..Len(spans) |-> i],
                          LAMBDA i : \A j \in 1..(i - 1) : spans[j][1] # spans[i][1])
    IN  [k \in 1..Len(kept) |-> COURSE(spans[kept[k]][1])]

\* [{"op": "COURSE", "course": c} for (c, _, _) in spans]
CourseItems(spans) == [i \in 1..Len(spans) |-> COURSE(spans[i][1])]

(***************************************************************************)
(* The clause parser.                                                      *)
(***************************************************************************)
\* the phrase "one of" or "any of" stands at offset p of s, as a whole word;
\* low is s lowercased
OneOfAt(s, low, p) ==
    /\ \/ OccursAt(low, <<"o", "n", "e", " ", "o", "f">>, p)
       \/ OccursAt(low, <<"a", "n", "y", " ", "o", "f">>, p)
    /\ WordBoundary(s, p)
    /\ WordBoundary(s, p + 6)

\* the end of the leftmost of the matches that start at the offsets hits
FirstEnd(hits) ==
    IF hits = {} THEN -1 ELSE 6 + CHOOSE p \in hits : \A q \in hits : p <= q

\* the end of the first whole-word "one of" / "any of" of s, or -1; low is s
\* lowercased
OneOfEndIn(s, low) == FirstEnd({p \in 0..(Len(s) - 6) : OneOfAt(s, low, p)})

\* re.search(r"\b(one of|any of)\b", s, re.IGNORECASE).end(), or -1
OneOfEnd(s) == OneOfEndIn(s, Lower(s))

\* the connector read with the word "and" tested before the literal "and/or"
ConnectorOf_word_first(between) ==
    IF ContainsWord(between, <<"a", "n", "d">>) THEN "AND"
    ELSE IF Contains(between, <<"a", "n", "d", "/", "o", "r">>) THEN "OR"
    ELSE IF ContainsWord(between, <<"o", "r">>) THEN "OR"
    ELSE IF Contains(between, <<",">>) THEN "LIST"
    ELSE "UNKNOWN"

\* the connector read from the lowercased text between two adjacent tokens
ConnectorOf(between) ==
    IF Contains(between, <<"a", "n", "d", "/", "o", "r">>) THEN "OR"
    ELSE IF ContainsWord(between, <<"a", "n", "d">>) THEN "AND"
    ELSE IF ContainsWord(between, <<"o", "r">>) THEN "OR"
    ELSE IF Contains(between, <<",">>) THEN "LIST"
    ELSE "UNKNOWN"

Connectors(clause_clean, courses) ==
    [i \in 1..(Len(courses) - 1) |->
        ConnectorOf(Lower(Slice(clause_clean, courses[i][3], courses[i + 1][2])))]

\* the set of connectors of a clause
ConnectorKinds(connectors) == {connectors[i] : i \in 1..Len(connectors)}

\* the segment group taking AND whenever the segment holds the word "and"
SegmentOf_and_first(seg_courses, hasAnd, hasOr) ==
    IF seg_courses = <<>> THEN <<>>
    ELSE IF hasAnd THEN <<AND(CourseItems(seg_courses))>>
    ELSE <<OR(CourseItems(seg_courses))>>

\* the group of a segment whose tokens are seg_courses: AND if it holds the
\* word "and" and not "or", else OR
SegmentOf(seg_courses, hasAnd, hasOr) ==
    IF seg_courses = <<>> THEN <<>>
    ELSE IF hasAnd /\ ~hasOr THEN <<AND(CourseItems(seg_courses))>>
    ELSE IF hasOr /\ ~hasAnd THEN <<OR(CourseItems(seg_courses))>>
    ELSE <<OR(CourseItems(seg_courses))>>

\* the group built for one comma-separated segment of a mixed clause
SegmentGroup(seg) ==
    SegmentOf(find_course_spans(seg),
              ContainsWord(Lower(seg), <<"a", "n", "d">>),
              ContainsWord(Lower(seg), <<"o", "r">>))

RECURSIVE SegmentGroups(_)
SegmentGroups(segments) ==
    IF segments = <<>> THEN <<>>
    ELSE SegmentGroup(Head(segments)) \o SegmentGroups(Tail(segments))

\* the number of items of xs whose op is op
CountOp(xs, op) == Cardinality({i \in 1..Len(xs) : xs[i].op = op})

\* the segment groups under one node: AND if all are AND, OR if all are OR,
\* AND if they are of both kinds
CombineByCount(subitems, and_count, or_count) ==
    IF and_count > 0 /\ or_count = 0 THEN AND(subitems)
    ELSE IF or_count > 0 /\ and_count = 0 THEN OR(subitems)
    ELSE AND(subitems)

Combine(subitems) ==
    CombineByCount(subitems, CountOp(subitems, "AND"), CountOp(subitems, "OR"))

\* if not subitems: subitems = the leaves of the clause
OrAllCourses(found, courses) == IF found = <<>> THEN CourseItems(courses) ELSE found

\* the branch for a clause with both an AND and an OR connector
MixedGroup(clause_clean, courses) ==
    Combine(OrAllCourses(
        SegmentGroups(NormalizedNonEmpty(SplitRuns(clause_clean, ",", 0, <<>>))),
        courses))

\* the connector branch taking the flat shortcuts only when every connector
\* is an AND, or every connector an OR
GroupByKinds_every_connector(kinds, course_items, clause_clean, courses) ==
    IF kinds = {"AND"} THEN AND(course_items)
    ELSE IF kinds = {"OR"} THEN OR(course_items)
    ELSE IF "AND" \notin kinds /\ "OR" \notin kinds
         THEN IF "LIST" \in kinds THEN OR(course_items)
              ELSE IF Len(course_items) > 1 THEN AND(course_items)
              ELSE First(course_items)
    ELSE MixedGroup(clause_clean, courses)

\* the connector branch reading a comma list as a conjunction
GroupByKinds_list_is_and(kinds, course_items, clause_clean, courses) ==
    IF "AND" \in kinds /\ "OR" \notin kinds THEN AND(course_items)
    ELSE IF "OR" \in kinds /\ "AND" \notin kinds THEN OR(course_items)
    ELSE IF "AND" \notin kinds /\ "OR" \notin kinds
         THEN IF Len(course_items) > 1 THEN AND(course_items)
              ELSE First(course_items)
    ELSE MixedGroup(clause_clean, courses)

\* the tree chosen from the connectors of the clause
GroupByKinds(kinds, course_items, clause_clean, courses) ==
    IF "AND" \in kinds /\ "OR" \notin kinds THEN AND(course_items)
    ELSE IF "OR" \in kinds /\ "AND" \notin kinds THEN OR(course_items)
    ELSE IF "AND" \notin kinds /\ "OR" \notin kinds
         THEN IF "LIST" \in kinds THEN OR(course_items)
              ELSE IF Len(course_items) > 1 THEN AND(course_items)
              ELSE First(course_items)
    ELSE MixedGroup(clause_clean, courses)

\* the branch that infers the connectors between adjacent tokens
ConnectorGroup(clause_clean, courses) ==
    GroupByKinds(ConnectorKinds(Connectors(clause_clean, courses)),
                 CourseItems(courses), clause_clean, courses)

\* AND over the items, or the one item alone
AndOrSingle(items) == IF Len(items) > 1 THEN AND(items) ELSE First(items)

\* the "one of" branch putting every token of the clause into the OR
OneOfGroup_all_tokens(courses, start_idx) == OR(CourseItems(courses))

\* the "one of" branch, taken when a token starts at or after start_idx
OneOfGroup(courses, start_idx) ==
    AndOrSingle(Append(
        CourseItems(SelectSeq(courses, LAMBDA c : c[2] < start_idx)),
        OR(CourseItems(SelectSeq(courses, LAMBDA c : c[2] >= start_idx)))))

\* GroupOf without the early return for a clause with no token
GroupOf_unguarded(clause_clean, courses, start_idx) ==
    IF /\ start_idx >= 0
       /\ \E i \in 1..Len(courses) : courses[i][2] >= start_idx
    THEN OneOfGroup(courses, start_idx)
    ELSE ConnectorGroup(clause_clean, courses)

\* the clause parser once the tokens and the end of the phrase are known
GroupOf(clause_clean, courses, start_idx) ==
    IF courses = <<>> THEN EMPTY
    ELSE IF /\ start_idx >= 0
            /\ \E i \in 1..Len(courses) : courses[i][2] >= start_idx
         THEN OneOfGroup(courses, start_idx)
    ELSE ConnectorGroup(clause_clean, courses)

ParseClean(clause_clean) ==
    GroupOf(clause_clean, find_course_spans(clause_clean), OneOfEnd(clause_clean))

\* the clause parser scanning the lowercased clause for tokens
parse_clause_into_group_lowercased(clause) ==
    ParseClean(Lower(normalize_space(clause)))

parse_clause_into_group(clause) == ParseClean(normalize_space(clause))

(***************************************************************************)
(* The clause router and the tree assembler.                               *)
(***************************************************************************)
RECURSIVE MatchSpaced(_, _, _)
\* the words of parts (each a set of alternatives) occur in s from offset p on,
\* one after the other with \s+ between them
MatchSpaced(s, p, parts) ==
    \E w \in Head(parts) :
        /\ OccursAt(s, w, p)
        /\ \/ Len(parts) = 1
           \/ LET q == p + Len(w)
                  n == RunLen(s, q, SpaceChars)
              IN  n >= 1 /\ MatchSpaced(s, q + n, Tail(parts))

\* re.search(r"credit\s+or\s+concurrent\s+(enrollment|registration)\s+in", s)
CreditOrConcurrent(s) ==
    \E p \in 0..Len(s) :
        MatchSpaced(s, p, <<
            {<<"c", "r", "e", "d", "i", "t">>},
            {<<"o", "r">>},
            {<<"c", "o", "n", "c", "u", "r", "r", "e", "n", "t">>},
            {<<"e", "n", "r", "o", "l", "l", "m", "e", "n", "t">>,
             <<"r", "e", "g", "i", "s", "t", "r", "a", "t", "i", "o", "n">>},
            {<<"i", "n">>} >>)

\* is_coreq_clause without the lowercasing of the clause
is_coreq_clause_case_sensitive(c) ==
    \/ Contains(c, <<"c", "o", "n", "c", "u", "r", "r", "e", "n", "t">>)
    \/ Contains(c, <<"c", "o", "-", "r", "e", "q", "u", "i", "s", "i", "t", "e">>)
    \/ Contains(c, <<"c", "o", "r", "e", "q", "u", "i", "s", "i", "t", "e">>)
    \/ CreditOrConcurrent(c)

is_coreq_clause(c) ==
    LET c_low == Lower(c)
    IN  \/ Contains(c_low, <<"c", "o", "n", "c", "u", "r", "r", "e", "n", "t">>)
        \/ Contains(c_low, <<"c", "o", "-", "r", "e", "q", "u", "i", "s", "i", "t", "e">>)
        \/ Contains(c_low, <<"c", "o", "r", "e", "q", "u", "i", "s", "i", "t", "e">>)
        \/ CreditOrConcurrent(c_low)

\* fold wrapping a single tree in an AND as well
fold_wraps_single(groups) ==
    IF groups = <<>> THEN EMPTY ELSE AND(groups)

\* fold without the test for an empty bucket
fold_without_empty_test(groups) ==
    IF Len(groups) = 1 THEN First(groups) ELSE AND(groups)

fold(groups) ==
    IF groups = <<>> THEN EMPTY
    ELSE IF Len(groups) = 1 THEN First(groups)
    ELSE AND(groups)

(***************************************************************************)
(* The non-course flag classifier.                                         *)
(***************************************************************************)
\* the keyword groups of detect_flags, in the order of its mapping
FlagMapping == <<
    [name |-> "CONSENT", keys |-> {
        <<"c", "o", "n", "s", "e", "n", "t">>,
        <<"p", "e", "r", "m", "i", "s", "s", "i", "o", "n">>,
        <<"a", "p", "p", "r", "o", "v", "a", "l">>}],
    [name |-> "STANDING", keys |-> {
        <<"s", "t", "a", "n", "d", "i", "n", "g">>,
        <<"s", "e", "n", "i", "o", "r">>,
        <<"j", "u", "n", "i", "o", "r">>,
        <<"s", "o", "p", "h", "o", "m", "o", "r", "e">>,
        <<"f", "r", "e", "s", "h", "m", "a", "n">>}],
    [name |-> "MAJOR_OR_PROGRAM", keys |-> {
        <<"m", "a", "j", "o", "r">>,
        <<"m", "i", "n", "o", "r">>,
        <<"p", "r", "o", "g", "r", "a", "m">>,
        <<"r", "e", "s", "t", "r", "i", "c", "t", "e", "d">>,
        <<"e", "n", "r", "o", "l", "l", "m", "e", "n", "t">>,
        <<"e", "n", "r", "o", "l", "l", "e", "d">>}],
    [name |-> "GRADE_OR_GPA", keys |-> {
        <<"g", "p", "a">>,
        <<"g", "r", "a", "d", "e">>,
        <<"m", "i", "n", "i", "m", "u", "m">>}],
    [name |-> "COREQ_ALLOWED", keys |-> {
        <<"c", "o", "n", "c", "u", "r", "r", "e", "n", "t">>,
        <<"c", "o", "-", "r", "e", "q", "u", "i", "s", "i", "t", "e">>,
        <<"c", "o", "r", "e", "q", "u", "i", "s", "i", "t", "e">>}],
    [name |-> "DEPT_OR_INSTRUCTOR", keys |-> {
        <<"d", "e", "p", "a", "r", "t", "m", "e", "n", "t">>,
        <<"i", "n", "s", "t", "r", "u", "c", "t", "o", "r">>}] >>

\* the flag names in the order sorted() puts them
SortedFlagNames == <<"CONSENT", "COREQ_ALLOWED", "DEPT_OR_INSTRUCTOR",
                     "GRADE_OR_GPA", "MAJOR_OR_PROGRAM", "STANDING">>

\* detect_flags returning the names in the order of its mapping, unsorted
detect_flags_mapping_order(s) ==
    LET t == Lower(s)
        hit == {j \in 1..Len(FlagMapping) :
                    \E k \in FlagMapping[j].keys : Contains(t, k)}
    IN  [j \in 1..Cardinality(hit) |->
            FlagMapping[CHOOSE x \in hit : Cardinality({y \in hit : y <= x}) = j].name]

\* detect_flags without the lowercasing of the text
detect_flags_case_sensitive(s) ==
    LET found == {FlagMapping[i].name : i \in
                    {j \in 1..Len(FlagMapping) :
                        \E k \in FlagMapping[j].keys : Contains(s, k)}}
    IN  SelectSeq(SortedFlagNames, LAMBDA n : n \in found)

detect_flags(s) ==
    LET t == Lower(s)
        found == {FlagMapping[i].name : i \in
                    {j \in 1..Len(FlagMapping) :
                        \E k \in FlagMapping[j].keys : Contains(t, k)}}
    IN  SelectSeq(SortedFlagNames, LAMBDA n : n \in found)

(***************************************************************************)
(* Input texts: concatenations of at most MaxLex catalog fragments.        *)
(***************************************************************************)
\* " ", "EE30", "CS 21 and ", "EE30 or ", "EE30, ", ";", " One of " and
\* " Concurrent "
Lexemes == {
    <<" ">>,
    <<"E", "E", "3", "0">>,
    <<"C", "S", " ", "2", "1", " ", "a", "n", "d", " ">>,
    <<"E", "E", "3", "0", " ", "o", "r", " ">>,
    <<"E", "E", "3", "0", ",", " ">>,
    <<";">>,
    <<" ", "O", "n", "e", " ", "o", "f", " ">>,
    <<" ", "C", "o", "n", "c", "u", "r", "r", "e", "n", "t", " ">> }

RECURSIVE Flatten(_)
Flatten(ls) == IF ls = <<>> THEN <<>> ELSE Head(ls) \o Flatten(Tail(ls))

Texts == {Flatten(ls) : ls \in UNION {[1..n -> Lexemes] : n \in 0..MaxLex}}

(***************************************************************************)
(* The driver: build_final_parsed.main on one record, with                 *)
(* parse_prereq_text unfolded into its steps.                              *)
(***************************************************************************)
Init ==
    /\ text \in Texts
    /\ pc = "start"
    /\ raw = <<>>
    /\ clauses = <<>>
    /\ ci = 1
    /\ grps = <<>>
    /\ hard_groups = <<>>
    /\ coreq_groups = <<>>
    /\ ast = <<>>
    /\ flags = <<>>
    /\ bucket = ""
    /\ out = <<>>
    /\ graph = <<>>
    /\ notes = <<>>
    /\ G = <<>>
    /\ R = <<>>
    /\ NoFetch

\* raw = (c.get("prerequisites") or "").strip(), then the clause split
Split ==
    /\ pc = "start"
    /\ raw' = Strip(text)
    /\ clauses' = NormalizedNonEmpty(SplitRuns(raw', ";", 0, <<>>))
    /\ IF clauses' = <<>>
       THEN /\ ast' = [hard |-> EMPTY, coreq_ok |-> EMPTY]
            /\ pc' = "parsed"
       ELSE /\ ast' = ast
            /\ pc' = "loop"
    /\ UNCHANGED <<text, ci, grps, hard_groups, coreq_groups, flags, bucket, out, graph, notes, G, R, fetchVars>>

\* the body of the loop for one clause and its tree grp
Route(clause, grp) ==
    IF grp = IndexError
    THEN /\ pc' = "raised"
         /\ UNCHANGED <<ci, grps, hard_groups, coreq_groups>>
    ELSE /\ IF grp.op = "EMPTY"
            THEN UNCHANGED <<hard_groups, coreq_groups>>
            ELSE IF is_coreq_clause(clause)
                 THEN /\ coreq_groups' = Append(coreq_groups, grp)
                      /\ UNCHANGED hard_groups
                 ELSE /\ hard_groups' = Append(hard_groups, grp)
                      /\ UNCHANGED coreq_groups
         /\ grps' = Append(grps, grp)
         /\ ci' = ci + 1
         /\ pc' = IF ci = Len(clauses) THEN "fold" ELSE "loop"

\* one turn of the loop over the clauses
ParseClause ==
    /\ pc = "loop"
    /\ Route(clauses[ci], parse_clause_into_group(clauses[ci]))
    /\ UNCHANGED <<text, raw, clauses, ast, flags, bucket, out, graph, notes, G, R, fetchVars>>

\* the two buckets are folded into the result
Fold ==
    /\ pc = "fold"
    /\ ast' = [hard |-> fold(hard_groups), coreq_ok |-> fold(coreq_groups)]
    /\ pc' = IF IndexError \in {ast'.hard, ast'.coreq_ok} THEN "raised" ELSE "parsed"
    /\ UNCHANGED <<text, raw, clauses, ci, grps, hard_groups, coreq_groups, flags, bucket, out, graph, notes, G, R, fetchVars>>

\* "flags": detect_flags(raw) if raw else []
DetectFlags ==
    /\ pc = "parsed"
    /\ flags' = IF raw # <<>> THEN detect_flags(raw) ELSE <<>>
    /\ pc' = "done"
    /\ UNCHANGED <<text, raw, clauses, ci, grps, hard_groups, coreq_groups, ast, bucket, out, graph, notes, G, R, fetchVars>>

Next == Split \/ ParseClause \/ Fold \/ DetectFlags

Spec == Init /\ [][Next]_vars

\* the clause loop alone: the split of the text and parse_clause_into_group
\* on each clause in turn
NextClause == Split \/ ParseClause

SpecClause == Init /\ [][NextClause]_vars

(***************************************************************************)
(* Vocabulary of the properties.                                           *)
(***************************************************************************)
RECURSIVE Leaves(_)
\* the course references at the COURSE leaves of a tree, from left to right
Leaves(node) ==
    IF node.op = "COURSE" THEN <<node.course>>
    ELSE IF node.op \in {"AND", "OR"}
         THEN LET RECURSIVE Cat(_)
                  Cat(k) == IF k > Len(node.items) THEN <<>>
                            ELSE Leaves(node.items[k]) \o Cat(k + 1)
              IN  Cat(1)
    ELSE <<>>

Range(xs) == {xs[i] : i \in 1..Len(xs)}

RECURSIVE Nodes(_)
\* the nodes of a tree
Nodes(node) ==
    {node} \cup
    (IF node.op \in {"AND", "OR"}
     THEN UNION {Nodes(node.items[k]) : k \in 1..Len(node.items)}
     ELSE {})

\* the semicolon-delimited pieces of the input text as they stand in it,
\* before any whitespace is normalized; piece i is the source of clauses[i]
RawPieces ==
    SelectSeq(SplitRuns(text, ";", 0, <<>>), LAMBDA c : normalize_space(c) # <<>>)

\* the trees the clause parser returned for the clauses, in text order
ClauseTrees == grps

\* corequisite-relevant, as the contract words it: the lowercase form holds
\* "concurrent", "co-requisite" or "corequisite"
CoreqRelevant(c) ==
    LET low == Lower(c)
    IN  \/ Contains(low, <<"c", "o", "n", "c", "u", "r", "r", "e", "n", "t">>)
        \/ Contains(low, <<"c", "o", "-", "r", "e", "q", "u", "i", "s", "i", "t", "e">>)
        \/ Contains(low, <<"c", "o", "r", "e", "q", "u", "i", "s", "i", "t", "e">>)

\* given the trees of the clauses: the clauses with a non-EMPTY tree that are
\* (b = TRUE) or are not (b = FALSE) corequisite-relevant, in text order
Contributors(trees, b) ==
    SelectSeq([i \in 1..Len(clauses) |-> i],
              LAMBDA i : trees[i] # EMPTY /\ CoreqRelevant(clauses[i]) = b)

\* the members of xs at the places idx
Pick(xs, idx) == [j \in 1..Len(idx) |-> xs[idx[j]]]

RECURSIVE LeavesOfAll(_)
LeavesOfAll(trees) ==
    IF trees = <<>> THEN <<>> ELSE Leaves(Head(trees)) \o LeavesOfAll(Tail(trees))

(***************************************************************************)
(* C1: every clause with a non-EMPTY tree contributes its whole tree to    *)
(* exactly one of the two top-level trees: to coreq_ok if its lowercase    *)
(* form contains "concurrent", "co-requisite" or "corequisite", otherwise  *)
(* to hard; no clause contributes to both, none is split, and the clauses  *)
(* contributing are exactly those with a non-EMPTY tree.                   *)
(***************************************************************************)
C1_DisjointRouting ==
    pc = "done" =>
        LET trees == ClauseTrees
            toHard == Contributors(trees, FALSE)
            toCoreq == Contributors(trees, TRUE)
        IN  /\ hard_groups = Pick(trees, toHard)
            /\ coreq_groups = Pick(trees, toCoreq)
            /\ Leaves(ast.hard) = LeavesOfAll(Pick(trees, toHard))
            /\ Leaves(ast.coreq_ok) = LeavesOfAll(Pick(trees, toCoreq))
            /\ Range(toHard) \cap Range(toCoreq) = {}
            /\ Range(toHard) \cup Range(toCoreq)
                 = {i \in 1..Len(clauses) : trees[i] # EMPTY}

\* a text with a hard clause and a corequisite clause, each with its tree
C1_Witness ==
    /\ pc = "done"
    /\ Len(hard_groups) >= 1
    /\ Len(coreq_groups) >= 1
    /\ ast.hard # EMPTY
    /\ ast.coreq_ok # EMPTY

\* the course token pattern matches in piece, and the match written as
\* "SUBJECT NUMBER" is ref
TokenIn(ref, piece) ==
    \E p \in 0..(Len(piece) - 1) :
        \E m \in CourseMatchesAt(piece, p) :
            LET d == p + m[1] + m[2]
            IN  ref = Slice(piece, p, p + m[1]) \o <<" ">>
                        \o Slice(piece, d, d + m[3] + m[4])

\* the references of a sequence of spans
Refs(spans) == [i \in 1..Len(spans) |-> spans[i][1]]

\* what the properties say of one clause c: its tokens, the end of the first
\* "one of" / "any of" phrase (-1 without one) and its connectors
Facts(c) ==
    LET spans == find_course_spans(c)
    IN  [spans |-> spans,
         phrase |-> OneOfEnd(c),
         kinds |-> ConnectorKinds(Connectors(c, spans))]

\* the clause with these facts is parsed by the mixed branch
TakesMixed(f) ==
    /\ ~(f.phrase >= 0 /\ \E x \in Range(f.spans) : x[2] >= f.phrase)
    /\ {"AND", "OR"} \subseteq f.kinds

(***************************************************************************)
(* C2: no fabricated courses. Every COURSE leaf of the hard tree and of    *)
(* the coreq_ok tree carries a reference that the course-token pattern     *)
(* matches in the raw text, inside the clause that produced the leaf, on   *)
(* every path of the clause parser.                                        *)
(***************************************************************************)
C2_NoFabricatedCourses ==
    pc = "done" =>
        LET trees == ClauseTrees
            pieces == RawPieces
            toHard == Contributors(trees, FALSE)
            toCoreq == Contributors(trees, TRUE)
        IN  /\ Len(pieces) = Len(clauses)
            /\ Len(hard_groups) = Len(toHard)
            /\ Len(coreq_groups) = Len(toCoreq)
            /\ \A j \in 1..Len(hard_groups) :
                 \A ref \in Range(Leaves(hard_groups[j])) :
                     TokenIn(ref, pieces[toHard[j]])
            /\ \A j \in 1..Len(coreq_groups) :
                 \A ref \in Range(Leaves(coreq_groups[j])) :
                     TokenIn(ref, pieces[toCoreq[j]])
            /\ Leaves(ast.hard) = LeavesOfAll(hard_groups)
            /\ Leaves(ast.coreq_ok) = LeavesOfAll(coreq_groups)

\* a mixed clause of two comma segments, and a token written without a blank
C2_Witness ==
    /\ pc = "done"
    /\ \E i \in 1..Len(clauses) :
         /\ TakesMixed(Facts(clauses[i]))
         /\ Len(NormalizedNonEmpty(SplitRuns(clauses[i], ",", 0, <<>>))) >= 2
    /\ <<"E", "E", " ", "3", "0">> \in Range(Leaves(ast.hard))
    /\ <<"C", "S", " ", "2", "1">> \in Range(Leaves(ast.hard))

(***************************************************************************)
(* C3: both returned trees are well formed. A node is EMPTY, COURSE, AND   *)
(* or OR; AND and OR carry "items", never empty; COURSE carries "course"   *)
(* and no items; EMPTY carries neither and is only ever the whole tree of  *)
(* a category, never an item of a node.                                    *)
(***************************************************************************)
RECURSIVE WellFormedItem(_)
WellFormedItem(node) ==
    IF node.op = "COURSE" THEN DOMAIN node = {"op", "course"}
    ELSE IF node.op \in {"AND", "OR"}
         THEN /\ DOMAIN node = {"op", "items"}
              /\ Len(node.items) >= 1
              /\ \A k \in 1..Len(node.items) : WellFormedItem(node.items[k])
    ELSE FALSE

WellFormedTree(node) ==
    IF node.op = "EMPTY" THEN DOMAIN node = {"op"} ELSE WellFormedItem(node)

C3_WellFormedTrees ==
    pc = "done" =>
        /\ DOMAIN ast = {"hard", "coreq_ok"}
        /\ WellFormedTree(ast.hard)
        /\ WellFormedTree(ast.coreq_ok)

\* a tree with a group inside a group and a leaf beside it, next to an EMPTY
\* category
C3_Witness ==
    /\ pc = "done"
    /\ ast.hard.op \in {"AND", "OR"}
    /\ \E k \in 1..Len(ast.hard.items) : ast.hard.items[k].op \in {"AND", "OR"}
    /\ \E k \in 1..Len(ast.hard.items) : ast.hard.items[k].op = "COURSE"
    /\ ast.coreq_ok = EMPTY

(***************************************************************************)
(* C4: singleton groups are collapsed. No AND node and no OR node anywhere *)
(* in the hard or the coreq_ok tree has exactly one item.                  *)
(***************************************************************************)
C4_NoSingletonGroups ==
    pc = "done" =>
        \A n \in Nodes(ast.hard) \cup Nodes(ast.coreq_ok) :
            n.op \in {"AND", "OR"} => Len(n.items) # 1

(***************************************************************************)
(* C5: the core never raises. On every text the parse and the flag         *)
(* classifier run to their end and return a hard tree, a coreq_ok tree and *)
(* a flag list; at worst the trees are EMPTY and the flag list is empty.   *)
(***************************************************************************)
C5_NeverRaises ==
    /\ pc \in {"start", "loop", "fold", "parsed", "done"}
    /\ pc = "loop" => ci \in 1..Len(clauses)
    /\ pc = "done" =>
         /\ DOMAIN ast = {"hard", "coreq_ok"}
         /\ ast.hard.op \in {"EMPTY", "COURSE", "AND", "OR"}
         /\ ast.coreq_ok.op \in {"EMPTY", "COURSE", "AND", "OR"}
         /\ Range(flags) \subseteq Range(SortedFlagNames)

\* a text that is not empty and has no course token and no keyword
C5_Witness ==
    /\ pc = "done"
    /\ Len(raw) > 1
    /\ clauses # <<>>
    /\ ast = [hard |-> EMPTY, coreq_ok |-> EMPTY]
    /\ flags = <<>>

\* the tree a bucket of clause trees folds to, as the contract words it
Folded(trees) ==
    IF Len(trees) = 0 THEN [op |-> "EMPTY"]
    ELSE IF Len(trees) = 1 THEN trees[1]
    ELSE [op |-> "AND", items |-> trees]

(***************************************************************************)
(* C6: top-level folding. For each category: no clause routed to it gives  *)
(* EMPTY; exactly one gives that clause's tree itself; two or more give an *)
(* AND whose items are the clause trees in the order of the clauses in the *)
(* text.                                                                   *)
(***************************************************************************)
C6_TopLevelFold ==
    pc = "done" =>
        LET trees == ClauseTrees
        IN  /\ ast.hard = Folded(Pick(trees, Contributors(trees, FALSE)))
            /\ ast.coreq_ok = Folded(Pick(trees, Contributors(trees, TRUE)))

\* two different clause trees folded, in text order, under one AND, beside
\* a category no clause was routed to
C6_Witness ==
    /\ pc = "done"
    /\ Len(hard_groups) = 2
    /\ hard_groups[1] # hard_groups[2]
    /\ ast.hard = [op |-> "AND", items |-> hard_groups]
    /\ coreq_groups = <<>>
    /\ ast.coreq_ok = EMPTY

\* the course token pattern matches somewhere in s
HasToken(s) == \E p \in 0..(Len(s) - 1) : CourseMatchesAt(s, p) # {}

(***************************************************************************)
(* C7: the clause parser returns EMPTY if and only if the scanner finds no *)
(* course token in the whitespace-normalized clause; so hard and coreq_ok  *)
(* are both EMPTY exactly when no clause of the text holds a course token. *)
(***************************************************************************)
C7_EmptyIffNoToken ==
    pc = "done" =>
        LET trees == ClauseTrees
            pieces == SplitRuns(text, ";", 0, <<>>)
        IN  /\ \A i \in 1..Len(clauses) :
                 (trees[i] = EMPTY) <=> ~HasToken(normalize_space(clauses[i]))
            /\ (ast.hard = EMPTY /\ ast.coreq_ok = EMPTY)
                 <=> \A k \in 1..Len(pieces) : ~HasToken(pieces[k])

\* a text with a clause that has a token and a clause that has none
C7_Witness ==
    /\ pc = "done"
    /\ \E i \in 1..Len(clauses) : HasToken(clauses[i])
    /\ \E i \in 1..Len(clauses) : ~HasToken(clauses[i])
    /\ ast.hard # EMPTY

\* the references of the tokens that start before (after = FALSE) or not
\* before (after = TRUE) the end of the first "one of" / "any of" phrase
RefsAround(f, after) ==
    Refs(SelectSeq(f.spans, LAMBDA x : (x[2] >= f.phrase) = after))

\* the leaves for a sequence of references
LeafNodes(refs) == [i \in 1..Len(refs) |-> [op |-> "COURSE", course |-> refs[i]]]

\* the tree the "one of" rule gives: the tokens before the phrase, then the
\* OR of the tokens after it, under an AND; the OR alone with none before
OneOfShape(before, after) ==
    IF before = <<>> THEN [op |-> "OR", items |-> LeafNodes(after)]
    ELSE [op |-> "AND",
          items |-> Append(LeafNodes(before), [op |-> "OR", items |-> LeafNodes(after)])]

\* the "one of" rule holds of the tree of a clause with the facts f
OneOfRuleHolds(tree, f) ==
    tree = OneOfShape(RefsAround(f, FALSE), RefsAround(f, TRUE))

(***************************************************************************)
(* C8 as claimed: whenever a clause contains the phrase "one of" or        *)
(* "any of", the tokens after the phrase form one OR in text order, each   *)
(* token before the phrase is a COURSE sibling before that OR under an     *)
(* AND, and with no token before the phrase the result is the OR alone.    *)
(***************************************************************************)
C8_OneOfRule_AsClaimed ==
    pc = "done" =>
        \A i \in 1..Len(clauses) :
            LET f == Facts(clauses[i])
            IN  (f.phrase >= 0 /\ f.spans # <<>>) => OneOfRuleHolds(ClauseTrees[i], f)

\* the "one of" rule applies to a clause with the facts f: it has the phrase
\* and a token that starts after it
OneOfApplies(f) == f.phrase >= 0 /\ \E x \in Range(f.spans) : x[2] >= f.phrase

(***************************************************************************)
(* C8 as amended: the rule applies when a clause contains the phrase and   *)
(* at least one course token starts after the phrase (its first            *)
(* occurrence); a clause whose tokens all precede the phrase is parsed by  *)
(* the connector rules instead.                                            *)
(***************************************************************************)
C8_OneOfRule ==
    pc = "done" =>
        \A i \in 1..Len(clauses) :
            LET f == Facts(clauses[i])
            IN  OneOfApplies(f) => OneOfRuleHolds(ClauseTrees[i], f)

\* a clause with a token before the phrase and two tokens after it
C8_Witness ==
    /\ pc = "done"
    /\ \E i \in 1..Len(clauses) :
         /\ Facts(clauses[i]).phrase >= 0
         /\ Len(RefsAround(Facts(clauses[i]), FALSE)) = 1
         /\ Len(RefsAround(Facts(clauses[i]), TRUE)) = 2
         /\ RefsAround(Facts(clauses[i]), TRUE)[1] # RefsAround(Facts(clauses[i]), TRUE)[2]
         /\ OneOfRuleHolds(ast.hard, Facts(clauses[i]))

\* the pure-connector shortcuts hold of the tree of a clause with the facts f
ShortcutsHold(tree, f) ==
    /\ ("AND" \in f.kinds /\ "OR" \notin f.kinds) =>
         tree = [op |-> "AND", items |-> LeafNodes(Refs(f.spans))]
    /\ ("OR" \in f.kinds /\ "AND" \notin f.kinds) =>
         tree = [op |-> "OR", items |-> LeafNodes(Refs(f.spans))]

(***************************************************************************)
(* C9: pure-connector shortcuts. A clause without the "one of" / "any of"  *)
(* phrase whose connectors include an AND and no OR parses to one flat AND *)
(* over all its course leaves in text order; with an OR and no AND, to one *)
(* flat OR over them.                                                      *)
(***************************************************************************)
C9_PureConnectorShortcuts ==
    pc = "done" =>
        \A i \in 1..Len(clauses) :
            LET f == Facts(clauses[i])
            IN  f.phrase < 0 => ShortcutsHold(ClauseTrees[i], f)

\* a clause of three tokens joined by an AND and a comma
C9_Witness ==
    /\ pc = "done"
    /\ \E i \in 1..Len(clauses) :
         /\ Facts(clauses[i]).phrase < 0
         /\ Facts(clauses[i]).kinds = {"AND", "LIST"}
         /\ Len(Facts(clauses[i]).spans) = 3
         /\ ast.hard = [op |-> "AND", items |-> LeafNodes(Refs(Facts(clauses[i]).spans))]

\* the tree the no-conjunction default gives for the references refs
DefaultShape(refs, kinds) ==
    IF "LIST" \in kinds THEN [op |-> "OR", items |-> LeafNodes(refs)]
    ELSE IF Len(refs) = 1 THEN [op |-> "COURSE", course |-> refs[1]]
    ELSE [op |-> "AND", items |-> LeafNodes(refs)]

\* the no-conjunction default holds of the tree of a clause with the facts f
DefaultHolds(tree, f) ==
    (f.spans # <<>> /\ f.kinds \cap {"AND", "OR"} = {}) =>
        tree = DefaultShape(Refs(f.spans), f.kinds)

(***************************************************************************)
(* C10: no-conjunction default. A clause without the "one of" / "any of"   *)
(* phrase with no AND and no OR connector parses to a flat OR over all its *)
(* course leaves in text order if some connector is LIST; otherwise to a   *)
(* flat AND over them, or to the bare COURSE leaf when it has one token.   *)
(***************************************************************************)
C10_NoConjunctionDefault ==
    pc = "done" =>
        \A i \in 1..Len(clauses) :
            LET f == Facts(clauses[i])
            IN  f.phrase < 0 => DefaultHolds(ClauseTrees[i], f)

\* a comma list of three tokens, parsed to their OR
C10_Witness ==
    /\ pc = "done"
    /\ \E i \in 1..Len(clauses) :
         /\ Facts(clauses[i]).phrase < 0
         /\ Facts(clauses[i]).kinds = {"LIST"}
         /\ Len(Facts(clauses[i]).spans) = 3
         /\ ast.hard = [op |-> "OR", items |-> LeafNodes(Refs(Facts(clauses[i]).spans))]

\* the comma-separated segments of a clause that hold a course token, in order
TokenSegments(c) ==
    SelectSeq(NormalizedNonEmpty(SplitRuns(c, ",", 0, <<>>)), HasToken)

\* the kind of the group of one segment, as the contract words it: AND with
\* the word "and" and without the word "or"; OR otherwise
SegmentKind(seg) ==
    LET low == Lower(seg)
    IN  IF ContainsWord(low, <<"a", "n", "d">>) /\ ~ContainsWord(low, <<"o", "r">>)
        THEN "AND" ELSE "OR"

\* the mixed rule holds of the tree of a clause with the segments segs
MixedRuleHolds(tree, segs) ==
    /\ tree.op \in {"AND", "OR"}
    /\ Len(tree.items) = Len(segs)
    /\ \A j \in 1..Len(segs) :
         tree.items[j] = [op |-> SegmentKind(segs[j]),
                          items |-> LeafNodes(Refs(find_course_spans(segs[j])))]
    /\ tree.op = "OR" <=> \A j \in 1..Len(segs) : SegmentKind(segs[j]) = "OR"

(***************************************************************************)
(* C11: mixed clause rule. A clause without the "one of" / "any of" phrase *)
(* with both an AND and an OR connector is re-segmented by commas; each    *)
(* segment with course tokens becomes one group over its leaves, AND if it *)
(* holds the word "and" and not "or", OR otherwise; the groups stand in    *)
(* segment order under one OR if all are OR, under one AND otherwise.      *)
(***************************************************************************)
C11_MixedClauseRule ==
    \A i \in 1..Len(grps) :
        LET f == Facts(clauses[i])
        IN  (f.phrase < 0 /\ {"AND", "OR"} \subseteq f.kinds) =>
                MixedRuleHolds(ClauseTrees[i], TokenSegments(clauses[i]))

\* a mixed clause of an AND segment and an OR segment, under an outer AND
C11_Witness ==
    \E i \in 1..Len(grps) :
        /\ Facts(clauses[i]).phrase < 0
        /\ {"AND", "OR"} \subseteq Facts(clauses[i]).kinds
        /\ Len(TokenSegments(clauses[i])) = 2
        /\ grps[i].op = "AND"
        /\ Len(grps[i].items) = 2
        /\ grps[i].items[1].op = "AND"
        /\ grps[i].items[2].op = "OR"
        /\ Len(grps[i].items[2].items) = 2

(***************************************************************************)
(* Clauses for the connector classification: a course token, then          *)
(* connector fragments and course tokens, at most MaxConnLex in all.       *)
(***************************************************************************)
\* the longest connector text, counted in lexemes
MaxConnLex == 4

\* "CS 21", " and ", " or ", " and/or ", "," and " "
ConnLexemes == {
    <<"C", "S", " ", "2", "1">>,
    <<" ", "a", "n", "d", " ">>,
    <<" ", "o", "r", " ">>,
    <<" ", "a", "n", "d", "/", "o", "r", " ">>,
    <<",">>,
    <<" ">> }

ConnTexts == {Flatten(ls) : ls \in UNION {[1..n -> ConnLexemes] : n \in 0..MaxConnLex}}

InitConn ==
    /\ text \in ConnTexts
    /\ pc = "start"
    /\ raw = <<>>
    /\ clauses = <<>>
    /\ ci = 1
    /\ grps = <<>>
    /\ hard_groups = <<>>
    /\ coreq_groups = <<>>
    /\ ast = <<>>
    /\ flags = <<>>
    /\ bucket = ""
    /\ out = <<>>
    /\ graph = <<>>
    /\ notes = <<>>
    /\ G = <<>>
    /\ R = <<>>
    /\ NoFetch

SpecConn == InitConn /\ [][Next]_vars

\* the lowercased texts strictly between the adjacent tokens spans
Betweens(c, spans) ==
    [k \in 1..(Len(spans) - 1) |-> Lower(Slice(c, spans[k][3], spans[k + 1][2]))]

\* the classification of the text b between two tokens, by the precedence of
\* the contract
Classified(b) ==
    IF Contains(b, <<"a", "n", "d", "/", "o", "r">>) THEN "OR"
    ELSE IF ContainsWord(b, <<"a", "n", "d">>) THEN "AND"
    ELSE IF ContainsWord(b, <<"o", "r">>) THEN "OR"
    ELSE IF Contains(b, <<",">>) THEN "LIST"
    ELSE "UNKNOWN"

(***************************************************************************)
(* C12: connector classification is total, single-valued and local. The    *)
(* connector of two adjacent tokens is one of AND, OR, LIST, UNKNOWN and   *)
(* is decided by the text between them alone: the literal "and/or" gives   *)
(* OR; else the word "and" gives AND; else the word "or" gives OR; else a  *)
(* comma gives LIST; else UNKNOWN.                                         *)
(***************************************************************************)
C12_ConnectorClassification ==
    pc = "done" =>
        \A i \in 1..Len(clauses) :
            LET spans == find_course_spans(clauses[i])
                connectors == Connectors(clauses[i], spans)
                between == Betweens(clauses[i], spans)
            IN  /\ Len(connectors) = Len(between)
                /\ \A k \in 1..Len(between) :
                     /\ connectors[k] \in {"AND", "OR", "LIST", "UNKNOWN"}
                     /\ connectors[k] = Classified(between[k])

\* two tokens with "and/or" between them, parsed to their OR
C12_Witness ==
    /\ pc = "done"
    /\ Len(clauses) = 1
    /\ LET spans == find_course_spans(clauses[1])
       IN  /\ Len(spans) = 2
           /\ Contains(Betweens(clauses[1], spans)[1], <<"a", "n", "d", "/", "o", "r">>)
           /\ Connectors(clauses[1], spans) = <<"OR">>
    /\ ast.hard.op = "OR"
    /\ Len(ast.hard.items) = 2

(***************************************************************************)
(* C13: corequisite routing implies the flag. Whenever the coreq_ok tree   *)
(* of a text is not EMPTY, the flags of the whole text include             *)
(* COREQ_ALLOWED.                                                          *)
(***************************************************************************)
C13_CoreqImpliesFlag ==
    pc = "done" => (ast.coreq_ok # EMPTY => "COREQ_ALLOWED" \in Range(flags))

\* a text whose only clause is routed to coreq_ok, with the flag set
C13_Witness ==
    /\ pc = "done"
    /\ ast.hard = EMPTY
    /\ ast.coreq_ok.op = "COURSE"
    /\ "COREQ_ALLOWED" \in Range(flags)

(***************************************************************************)
(* Texts for the flag classifier: keywords of the groups, a course token   *)
(* and a semicolon, at most MaxFlagLex in all.                             *)
(***************************************************************************)
\* the longest flag text, counted in lexemes
MaxFlagLex == 3

\* "Consent", " senior", " standing", " major", " GPA", " instructor",
\* "CS 21" and ";"
FlagLexemes == {
    <<"C", "o", "n", "s", "e", "n", "t">>,
    <<" ", "s", "e", "n", "i", "o", "r">>,
    <<" ", "s", "t", "a", "n", "d", "i", "n", "g">>,
    <<" ", "m", "a", "j", "o", "r">>,
    <<" ", "G", "P", "A">>,
    <<" ", "i", "n", "s", "t", "r", "u", "c", "t", "o", "r">>,
    <<"C", "S", " ", "2", "1">>,
    <<";">> }

FlagTexts == {Flatten(ls) : ls \in UNION {[1..n -> FlagLexemes] : n \in 0..MaxFlagLex}}

InitFlags ==
    /\ text \in FlagTexts
    /\ pc = "start"
    /\ raw = <<>>
    /\ clauses = <<>>
    /\ ci = 1
    /\ grps = <<>>
    /\ hard_groups = <<>>
    /\ coreq_groups = <<>>
    /\ ast = <<>>
    /\ flags = <<>>
    /\ bucket = ""
    /\ out = <<>>
    /\ graph = <<>>
    /\ notes = <<>>
    /\ G = <<>>
    /\ R = <<>>
    /\ NoFetch

SpecFlags == InitFlags /\ [][Next]_vars

\* the six flag names in alphabetical order
FlagNames == <<"CONSENT", "COREQ_ALLOWED", "DEPT_OR_INSTRUCTOR",
               "GRADE_OR_GPA", "MAJOR_OR_PROGRAM", "STANDING">>

\* the place of a flag name in the alphabetical order
NameRank(n) == CHOOSE i \in 1..Len(FlagNames) : FlagNames[i] = n

\* a keyword of the group of the flag n occurs in the lowercased text s
KeywordOf(n, s) ==
    \E j \in 1..Len(FlagMapping) :
        /\ FlagMapping[j].name = n
        /\ \E k \in FlagMapping[j].keys : Contains(Lower(s), k)

(***************************************************************************)
(* C14: flag classification. The flag list holds no duplicate, is sorted   *)
(* by name and is drawn from the six flag names; a flag is in it exactly   *)
(* when a keyword of its group occurs in the lowercased text, whether or   *)
(* not the text holds course tokens.                                       *)
(***************************************************************************)
C14_FlagClassification ==
    pc = "done" =>
        /\ Range(flags) \subseteq Range(FlagNames)
        /\ \A i, j \in 1..Len(flags) : i < j => NameRank(flags[i]) < NameRank(flags[j])
        /\ \A n \in Range(FlagNames) : n \in Range(flags) <=> KeywordOf(n, raw)

\* a text with a course tree and two flags, sorted into the reverse of the
\* order of the mapping
C14_Witness ==
    /\ pc = "done"
    /\ ast.hard.op = "COURSE"
    /\ flags = <<"MAJOR_OR_PROGRAM", "STANDING">>

(***************************************************************************)
(* The pre-parse gate: scripts/analyze_prereqs.py.                         *)
(***************************************************************************)
\* re.search(r"prerequisite[s]?:\s*none\b", t, re.IGNORECASE) with the match
\* starting at offset p; low is t lowercased and q the end of "prerequisite"
ColonNoneFrom(low, q) ==
    /\ q < Len(low)
    /\ low[q + 1] = ":"
    /\ OccursAt(low, <<"n", "o", "n", "e">>, q + 1 + RunLen(low, q + 1, SpaceChars))
    /\ WordBoundary(low, q + 1 + RunLen(low, q + 1, SpaceChars) + 4)

ColonNoneAt(low, p) ==
    /\ OccursAt(low, <<"p", "r", "e", "r", "e", "q", "u", "i", "s", "i", "t", "e">>, p)
    /\ IF p + 12 < Len(low) /\ low[p + 13] = "s"
       THEN ColonNoneFrom(low, p + 13)
       ELSE ColonNoneFrom(low, p + 12)

\* any(p.search(t) for p in NONE_PATTERNS); low is t lowercased
MatchesNonePattern(low) ==
    \/ low \in {<<"n", "o", "n", "e">>, <<"n", "o", "n", "e", ".">>}
    \/ Contains(low, <<"n", "o", " ", "p", "r", "e", "r", "e", "q", "u", "i", "s",
                       "i", "t", "e", "s">>)
    \/ \E p \in 0..Len(low) : ColonNoneAt(low, p)

is_none_text(s) == MatchesNonePattern(Lower(Strip(s)))

\* NON_COURSE_KEYWORDS, each as the substring its pattern looks for
NON_COURSE_KEYWORDS == {
    <<"c", "o", "n", "s", "e", "n", "t">>,
    <<"p", "e", "r", "m", "i", "s", "s", "i", "o", "n">>,
    <<"a", "p", "p", "r", "o", "v", "a", "l">>,
    <<"s", "t", "a", "n", "d", "i", "n", "g">>,
    <<"s", "e", "n", "i", "o", "r">>,
    <<"j", "u", "n", "i", "o", "r">>,
    <<"s", "o", "p", "h", "o", "m", "o", "r", "e">>,
    <<"f", "r", "e", "s", "h", "m", "a", "n">>,
    <<"m", "a", "j", "o", "r">>,
    <<"m", "i", "n", "o", "r">>,
    <<"p", "r", "o", "g", "r", "a", "m">>,
    <<"r", "e", "s", "t", "r", "i", "c", "t", "e", "d">>,
    <<"e", "n", "r", "o", "l", "l", "m", "e", "n", "t">>,
    <<"e", "n", "r", "o", "l", "l", "e", "d">>,
    <<"g", "p", "a">>,
    <<"g", "r", "a", "d", "e">>,
    <<"m", "i", "n", "i", "m", "u", "m">>,
    <<"c", "r", "e", "d", "i", "t", " ", "h", "o", "u", "r">>,
    <<"c", "r", "e", "d", "i", "t">>,
    <<"h", "o", "u", "r">>,
    <<"r", "e", "g", "i", "s", "t", "r", "a", "t", "i", "o", "n">>,
    <<"c", "o", "n", "c", "u", "r", "r", "e", "n", "t">>,
    <<"c", "o", "-", "r", "e", "q", "u", "i", "s", "i", "t", "e">>,
    <<"c", "o", "r", "e", "q", "u", "i", "s", "i", "t", "e">>,
    <<"d", "e", "p", "a", "r", "t", "m", "e", "n", "t">>,
    <<"i", "n", "s", "t", "r", "u", "c", "t", "o", "r">> }

\* any(re.search(k, t) for k in NON_COURSE_KEYWORDS); low is the text lowercased
HasKeyword(low) == \E k \in NON_COURSE_KEYWORDS : Contains(low, k)

has_non_course_requirements(s) == HasKeyword(Lower(s))

RECURSIVE ReplaceSpans(_, _, _)
\* COURSE_TOKEN.sub("COURSE", t), from offset p on; spans are the matches
ReplaceSpans(t, p, spans) ==
    IF spans = <<>> THEN Slice(t, p, Len(t))
    ELSE Slice(t, p, spans[1][2]) \o <<"C", "O", "U", "R", "S", "E">>
           \o ReplaceSpans(t, spans[1][3], Tail(spans))

\* re.sub(r"[(),.;]", " ", s)
BlankPunctuation(s) ==
    [i \in 1..Len(s) |-> IF s[i] \in {"(", ")", ",", ".", ";"} THEN " " ELSE s[i]]

\* the alternatives of the connective pattern, in the order it lists them
ConnectiveWords == <<
    <<"a", "n", "d">>,
    <<"o", "r">>,
    <<"a", "n", "d", "/", "o", "r">>,
    <<"e", "i", "t", "h", "e", "r">>,
    <<"b", "o", "t", "h">>,
    <<"o", "n", "e", " ", "o", "f">>,
    <<"t", "w", "o", " ", "o", "f">>,
    <<"w", "i", "t", "h">>,
    <<"c", "r", "e", "d", "i", "t", " ", "i", "n">> >>

\* the alternatives of words that match at offset p of s between two \b
WordHits(s, low, p, words) ==
    {j \in 1..Len(words) :
        /\ OccursAt(low, words[j], p)
        /\ WordBoundary(s, p)
        /\ WordBoundary(s, p + Len(words[j]))}

\* the first of the alternatives hits, in the order of the pattern
FirstHit(hits) == CHOOSE j \in hits : \A k \in hits : j <= k

RECURSIVE BlankWords(_, _, _, _)

\* one step of the substitution at offset p: the alternatives hits match there
BlankWordsAt(s, low, p, words, hits) ==
    IF hits = {} THEN <<s[p + 1]>> \o BlankWords(s, low, p + 1, words)
    ELSE <<" ">> \o BlankWords(s, low, p + Len(words[FirstHit(hits)]), words)

\* re.sub(r"\b(w1|w2|...)\b", " ", s, flags=re.IGNORECASE) from offset p on
BlankWords(s, low, p, words) ==
    IF p >= Len(s) THEN <<>>
    ELSE BlankWordsAt(s, low, p, words, WordHits(s, low, p, words))

\* the length of the match of \b(at\s+least)\b at offset p of s, or 0
AtLeastLen(s, low, p) ==
    IF /\ OccursAt(low, <<"a", "t">>, p)
       /\ WordBoundary(s, p)
       /\ RunLen(s, p + 2, SpaceChars) >= 1
       /\ OccursAt(low, <<"l", "e", "a", "s", "t">>, p + 2 + RunLen(s, p + 2, SpaceChars))
       /\ WordBoundary(s, p + 7 + RunLen(s, p + 2, SpaceChars))
    THEN 7 + RunLen(s, p + 2, SpaceChars)
    ELSE 0

RECURSIVE BlankAtLeast(_, _, _)

BlankAtLeastAt(s, low, p, n) ==
    IF n = 0 THEN <<s[p + 1]>> \o BlankAtLeast(s, low, p + 1)
    ELSE <<" ">> \o BlankAtLeast(s, low, p + n)

\* re.sub(r"\b(at\s+least)\b", " ", s, flags=re.IGNORECASE) from offset p on
BlankAtLeast(s, low, p) ==
    IF p >= Len(s) THEN <<>> ELSE BlankAtLeastAt(s, low, p, AtLeastLen(s, low, p))

RECURSIVE CoursesFrom(_, _)
\* (COURSE\s*)+ matches s from offset p to its end
CoursesFrom(s, p) ==
    /\ OccursAt(s, <<"C", "O", "U", "R", "S", "E">>, p)
    /\ \/ p + 6 + RunLen(s, p + 6, SpaceChars) = Len(s)
       \/ CoursesFrom(s, p + 6 + RunLen(s, p + 6, SpaceChars))

\* simplified == "" or re.fullmatch(r"(COURSE\s*)+", simplified) is not None
OnlyCourses(simplified) == simplified = <<>> \/ CoursesFrom(simplified, 0)

\* the second substitution of is_course_only, on the text s
WithoutConnectives(s) == BlankWords(s, Lower(s), 0, ConnectiveWords)

\* the third substitution of is_course_only, on the text s
WithoutAtLeast(s) == BlankAtLeast(s, Lower(s), 0)

\* a text taken for course-only as soon as it has a course token
CourseOnlyStripped_with_a_token(t) == find_course_spans(t) # <<>>

\* is_course_only once the text is stripped
CourseOnlyStripped(t) ==
    IF has_non_course_requirements(t) THEN FALSE
    ELSE OnlyCourses(normalize_space(WithoutAtLeast(WithoutConnectives(
            BlankPunctuation(ReplaceSpans(t, 0, find_course_spans(t)))))))

is_course_only(s) == CourseOnlyStripped(Strip(s))

\* the key of results under which analyze puts a record with this text
BucketOf(prereq) ==
    IF Strip(prereq) = <<>> THEN "none"
    ELSE IF is_none_text(prereq) THEN "none"
    ELSE IF is_course_only(prereq) THEN "course_only"
    ELSE "remaining"

\* analyze_prereqs.analyze on the record, run after build_final_parsed
Analyze ==
    /\ pc = "done"
    /\ bucket = ""
    /\ bucket' = BucketOf(text)
    /\ UNCHANGED <<text, pc, raw, clauses, ci, grps, hard_groups, coreq_groups, ast, flags, out, graph, notes, G, R, fetchVars>>

(***************************************************************************)
(* Texts for the gate: negative phrasings, a course token, connectives and *)
(* a keyword, at most MaxGateLex in all.                                   *)
(***************************************************************************)
\* the longest gate text, counted in lexemes
MaxGateLex == 3

\* "None", ".", "No prerequisites", "Prerequisites: none", " ", "CS 21",
\* " and/or ", " or ", "/" and " senior"
GateLexemes == {
    <<"N", "o", "n", "e">>,
    <<".">>,
    <<"N", "o", " ", "p", "r", "e", "r", "e", "q", "u", "i", "s", "i", "t", "e", "s">>,
    <<"P", "r", "e", "r", "e", "q", "u", "i", "s", "i", "t", "e", "s", ":", " ",
      "n", "o", "n", "e">>,
    <<" ">>,
    <<"C", "S", " ", "2", "1">>,
    <<" ", "a", "n", "d", "/", "o", "r", " ">>,
    <<" ", "o", "r", " ">>,
    <<"/">>,
    <<" ", "s", "e", "n", "i", "o", "r">> }

GateTexts == {Flatten(ls) : ls \in UNION {[1..n -> GateLexemes] : n \in 0..MaxGateLex}}

InitGate ==
    /\ text \in GateTexts
    /\ pc = "start"
    /\ raw = <<>>
    /\ clauses = <<>>
    /\ ci = 1
    /\ grps = <<>>
    /\ hard_groups = <<>>
    /\ coreq_groups = <<>>
    /\ ast = <<>>
    /\ flags = <<>>
    /\ bucket = ""
    /\ out = <<>>
    /\ graph = <<>>
    /\ notes = <<>>
    /\ G = <<>>
    /\ R = <<>>
    /\ NoFetch

NextGate == Split \/ ParseClause \/ Fold \/ DetectFlags \/ Analyze

SpecGate == InitGate /\ [][NextGate]_vars

RECURSIVE BlankSpans(_, _, _)
\* the text t from offset p on with every matched course token spans removed
BlankSpans(t, p, spans) ==
    IF spans = <<>> THEN Slice(t, p, Len(t))
    ELSE Slice(t, p, spans[1][2]) \o <<" ">> \o BlankSpans(t, spans[1][3], Tail(spans))

\* the conjunction and quantifier filler words of the contract, "and/or" read
\* as one word
FillerWords == <<
    <<"a", "n", "d", "/", "o", "r">>,
    <<"a", "n", "d">>,
    <<"o", "r">>,
    <<"e", "i", "t", "h", "e", "r">>,
    <<"b", "o", "t", "h">>,
    <<"o", "n", "e", " ", "o", "f">>,
    <<"t", "w", "o", " ", "o", "f">>,
    <<"w", "i", "t", "h">>,
    <<"c", "r", "e", "d", "i", "t", " ", "i", "n">> >>

\* what is left of the stripped text t once every matched course token and
\* every filler word is removed
Residue(t) ==
    WithoutAtLeast(BlankWords(BlankSpans(t, 0, find_course_spans(t)),
                              Lower(BlankSpans(t, 0, find_course_spans(t))),
                              0, FillerWords))

\* nothing but whitespace and punctuation stands in s
OnlyBlankOrPunctuation(s) == \A i \in 1..Len(s) : s[i] \notin WordChars

\* the class of a text, as the contract words it
ContractClass(s) ==
    IF Strip(s) = <<>> \/ is_none_text(s) THEN "none"
    ELSE IF OnlyBlankOrPunctuation(Residue(Strip(s))) THEN "course_only"
    ELSE "remaining"

(***************************************************************************)
(* C15: pre-parse gate. Every record is put in exactly one of none,        *)
(* course_only and remaining: none for an empty or blank text or one that  *)
(* matches a negative phrasing; course_only for any other text of which    *)
(* nothing but whitespace and punctuation remains once every course token  *)
(* and every filler word is removed; remaining otherwise.                  *)
(***************************************************************************)
C15_GateClasses ==
    bucket # "" =>
        /\ bucket \in {"none", "course_only", "remaining"}
        /\ bucket = ContractClass(text)

(***************************************************************************)
(* C16: empty-on-none. Every text the gate puts in none parses to          *)
(* hard = EMPTY and coreq_ok = EMPTY with an empty flag list.              *)
(***************************************************************************)
C16_EmptyOnNone ==
    bucket = "none" =>
        /\ ast = [hard |-> EMPTY, coreq_ok |-> EMPTY]
        /\ flags = <<>>

(***************************************************************************)
(* build_final_parsed.main over several records, one after the other.      *)
(***************************************************************************)
\* the number of records of the input
MaxRecords == 3

\* "CS 21", "EE30;CS 21", "Concurrent EE30", "CS 21 or EE30; senior",
\* "EE30;CS 21 or EE30" and ""
RecordTexts == {
    <<"C", "S", " ", "2", "1">>,
    <<"E", "E", "3", "0", ";", "C", "S", " ", "2", "1">>,
    <<"C", "o", "n", "c", "u", "r", "r", "e", "n", "t", " ", "E", "E", "3", "0">>,
    <<"C", "S", " ", "2", "1", " ", "o", "r", " ", "E", "E", "3", "0", ";", " ",
      "s", "e", "n", "i", "o", "r">>,
    <<"E", "E", "3", "0", ";", "C", "S", " ", "2", "1", " ", "o", "r", " ",
      "E", "E", "3", "0">>,
    <<>> }

\* the record is appended to out; the next record is read and parsed by new
\* calls, whose locals start empty
NextRecord_keeps_groups ==
    /\ pc = "done"
    /\ Len(out) < MaxRecords
    /\ out' = Append(out, [raw |-> raw, hard |-> ast.hard,
                           coreq_ok |-> ast.coreq_ok, flags |-> flags])
    /\ text' \in (IF Len(out) + 1 = MaxRecords THEN {<<>>} ELSE RecordTexts)
    /\ pc' = IF Len(out) + 1 = MaxRecords THEN "end" ELSE "start"
    /\ raw' = <<>>
    /\ clauses' = <<>>
    /\ ci' = 1
    /\ grps' = <<>>
    /\ ast' = <<>>
    /\ flags' = <<>>
    /\ UNCHANGED <<hard_groups, coreq_groups, bucket, graph, notes, G, R, fetchVars>>

\* out.append({...}) for the record, then the next turn of the loop over the
\* records, if there is one: every call starts with locals of its own
NextRecord ==
    /\ pc = "done"
    /\ Len(out) < MaxRecords
    /\ out' = Append(out, [raw |-> raw, hard |-> ast.hard,
                           coreq_ok |-> ast.coreq_ok, flags |-> flags])
    /\ text' \in (IF Len(out) + 1 = MaxRecords THEN {<<>>} ELSE RecordTexts)
    /\ pc' = IF Len(out) + 1 = MaxRecords THEN "end" ELSE "start"
    /\ raw' = <<>>
    /\ clauses' = <<>>
    /\ ci' = 1
    /\ grps' = <<>>
    /\ hard_groups' = <<>>
    /\ coreq_groups' = <<>>
    /\ ast' = <<>>
    /\ flags' = <<>>
    /\ UNCHANGED <<bucket, graph, notes, G, R, fetchVars>>

InitRecords ==
    /\ text \in RecordTexts
    /\ pc = "start"
    /\ raw = <<>>
    /\ clauses = <<>>
    /\ ci = 1
    /\ grps = <<>>
    /\ hard_groups = <<>>
    /\ coreq_groups = <<>>
    /\ ast = <<>>
    /\ flags = <<>>
    /\ bucket = ""
    /\ out = <<>>
    /\ graph = <<>>
    /\ notes = <<>>
    /\ G = <<>>
    /\ R = <<>>
    /\ NoFetch

NextRecords == Split \/ ParseClause \/ Fold \/ DetectFlags \/ NextRecord

SpecRecords == InitRecords /\ [][NextRecords]_vars

(***************************************************************************)
(* C17: determinism. Two records with the same raw text get the same hard  *)
(* tree, coreq_ok tree and flag list, whatever was parsed before or        *)
(* between them.                                                           *)
(***************************************************************************)
C17_Determinism ==
    \A i, j \in 1..Len(out) : out[i].raw = out[j].raw => out[i] = out[j]

\* a text parsed first and again after another text with trees of its own
C17_Witness ==
    /\ Len(out) = 3
    /\ out[1].raw = out[3].raw
    /\ out[1].raw # out[2].raw
    /\ out[1].hard # EMPTY
    /\ out[2].hard # EMPTY
    /\ out[2].hard # out[1].hard
    /\ out[3] = out[1]

(***************************************************************************)
(* build_graph_assets: the nodes and edges of the requirement graph.       *)
(***************************************************************************)
\* Python's None
None == "None"

RECURSIVE walk(_)
\* walk of collect_courses_from_ast: the course of a COURSE node that has
\* one, then the walks of the node's items, in their order
walk(node) ==
    LET own == IF node.op = "COURSE" /\ "course" \in DOMAIN node /\ node.course # <<>>
               THEN <<node.course>> ELSE <<>>
        RECURSIVE Children(_)
        Children(k) == IF k > Len(node.items) THEN <<>>
                       ELSE walk(node.items[k]) \o Children(k + 1)
    IN  own \o (IF "items" \in DOMAIN node THEN Children(1) ELSE <<>>)

RECURSIVE uniq(_, _)
\* the loop over out: the elements not seen before, in their order
uniq(xs, seen) ==
    IF xs = <<>> THEN <<>>
    ELSE IF Head(xs) \in seen THEN uniq(Tail(xs), seen)
    ELSE <<Head(xs)>> \o uniq(Tail(xs), seen \cup {Head(xs)})

\* the walk returned as it is, a course once for each of its leaves
collect_courses_from_ast_every_leaf(tree) == walk(tree)

collect_courses_from_ast(tree) == uniq(walk(tree), {})

RECURSIVE WordLen(_, _)
\* the length of the run of characters other than whitespace at offset p
WordLen(s, p) ==
    IF p < Len(s) /\ s[p + 1] \notin SpaceChars THEN 1 + WordLen(s, p + 1) ELSE 0

\* course_id.split()[0] if ' ' in course_id else None
SubjectOf(course_id) ==
    IF \E i \in 1..Len(course_id) : course_id[i] = " "
    THEN SubSeq(StripLeft(course_id), 1, WordLen(StripLeft(course_id), 0))
    ELSE None

\* ensure_node: nodes_map in the order of insertion, a new entry only for an
\* id it has not got
ensure_node(nodes_map, course_id, label) ==
    IF \E i \in 1..Len(nodes_map) : nodes_map[i].id = course_id THEN nodes_map
    ELSE Append(nodes_map, [id |-> course_id,
                            label |-> IF label = None THEN course_id ELSE label,
                            subject |-> SubjectOf(course_id)])

RECURSIVE EnsureAll(_, _)
\* ensure_node(pre) for each pre of pres
EnsureAll(nodes_map, pres) ==
    IF pres = <<>> THEN nodes_map
    ELSE EnsureAll(ensure_node(nodes_map, Head(pres), None), Tail(pres))

\* edges.append({"source": pre, "target": idx, "kind": kind}) for each pre
EdgesTo(pres, idx, kind) ==
    [i \in 1..Len(pres) |-> [source |-> pres[i], target |-> idx, kind |-> kind]]

RECURSIVE GraphFrom(_, _, _, _, _)
\* the loop of build_graph over the records from the k-th on
GraphFrom(courses, include_coreq, k, nodes_map, edges) ==
    IF k > Len(courses) THEN [nodes |-> nodes_map, edges |-> edges]
    ELSE LET c == courses[k]
             hard == collect_courses_from_ast(c.hard)
             coreq == IF include_coreq THEN collect_courses_from_ast(c.coreq_ok)
                      ELSE <<>>
         IN  GraphFrom(courses, include_coreq, k + 1,
                       EnsureAll(EnsureAll(ensure_node(nodes_map, c.index, c.name),
                                           hard), coreq),
                       edges \o EdgesTo(hard, c.index, "hard")
                             \o EdgesTo(coreq, c.index, "coreq"))

build_graph(courses, include_coreq) == GraphFrom(courses, include_coreq, 1, <<>>, <<>>)

\* the index fields of the records: "CS 21", "EE 30" and "ME 101"
Indices == {
    <<"C", "S", " ", "2", "1">>,
    <<"E", "E", " ", "3", "0">>,
    <<"M", "E", " ", "1", "0", "1">> }

\* the name field of the record of a course: the catalog gives "CS 21" a
\* title and the other courses none
NameOf(index) == IF index = <<"C", "S", " ", "2", "1">> THEN "Data Structures" ELSE None

\* courses_parsed.json: the records of out under the indices idx
CoursesOf(idx) ==
    [i \in 1..Len(out) |-> [index |-> idx[i], name |-> NameOf(idx[i]),
                            hard |-> out[i].hard, coreq_ok |-> out[i].coreq_ok]]

\* build_graph_assets.main once build_final_parsed.main has written its
\* records: build_graph(courses, include_coreq=not args.hard_only)
BuildGraph ==
    /\ pc = "end"
    /\ graph = <<>>
    /\ \E idx \in [1..Len(out) -> Indices], include_coreq \in BOOLEAN :
          graph' = [courses |-> CoursesOf(idx), include_coreq |-> include_coreq]
                   @@ build_graph(CoursesOf(idx), include_coreq)
    /\ UNCHANGED <<text, pc, raw, clauses, ci, grps, hard_groups, coreq_groups, ast,
                   flags, bucket, out, notes, G, R, fetchVars>>

NextGraph == Split \/ ParseClause \/ Fold \/ DetectFlags \/ NextRecord \/ BuildGraph

SpecGraph == InitRecords /\ [][NextGraph]_vars

\* the number of edges of the graph from course pre to record idx of a kind
EdgeCount(pre, idx, kind) ==
    Cardinality({i \in 1..Len(graph.edges) :
                    graph.edges[i] = [source |-> pre, target |-> idx, kind |-> kind]})

\* the tree of a record a kind of edge is drawn from
TreeOf(c, kind) == IF kind = "hard" THEN c.hard ELSE c.coreq_ok

\* the number of records under the index idx whose tree of the kind has the
\* course pre at a leaf
RecordCount(pre, idx, kind) ==
    Cardinality({i \in 1..Len(graph.courses) :
                    /\ graph.courses[i].index = idx
                    /\ pre \in Range(Leaves(TreeOf(graph.courses[i], kind)))})

\* the courses at the leaves of the trees and at the sources of the edges
GraphCourses ==
    UNION {Range(Leaves(graph.courses[i].hard)) \cup Range(Leaves(graph.courses[i].coreq_ok))
           : i \in 1..Len(graph.courses)}
    \cup {graph.edges[i].source : i \in 1..Len(graph.edges)}

(***************************************************************************)
(* C18: graph edges follow the trees. Each record gives one hard edge, from *)
(* the course to the record's index, for each distinct course at a COURSE  *)
(* leaf at any depth of its hard tree, and, when corequisites are          *)
(* included, one coreq edge for each distinct course of its coreq_ok tree; *)
(* there is no other edge, and the source and the target of every edge are *)
(* in the node list.                                                       *)
(***************************************************************************)
C18_EdgesFollowTrees ==
    graph # <<>> =>
        /\ \A pre \in GraphCourses, idx \in Indices :
              /\ EdgeCount(pre, idx, "hard") = RecordCount(pre, idx, "hard")
              /\ EdgeCount(pre, idx, "coreq") =
                    IF graph.include_coreq THEN RecordCount(pre, idx, "coreq") ELSE 0
        /\ \A i \in 1..Len(graph.edges) :
              /\ graph.edges[i].kind \in {"hard", "coreq"}
              /\ \E n \in 1..Len(graph.nodes) : graph.nodes[n].id = graph.edges[i].source
              /\ \E n \in 1..Len(graph.nodes) : graph.nodes[n].id = graph.edges[i].target

\* a graph with corequisites whose first record has a course at two leaves,
\* one of them below the top of its hard tree, and which has a coreq edge
C18_Witness ==
    /\ graph # <<>>
    /\ graph.include_coreq
    /\ LET t == graph.courses[1].hard
       IN  /\ t.op = "AND"
           /\ \E k \in 1..Len(t.items) : t.items[k].op = "OR"
           /\ Len(Leaves(t)) > Cardinality(Range(Leaves(t)))
    /\ \E i \in 1..Len(graph.edges) : graph.edges[i].kind = "coreq"

(***************************************************************************)
(* C20: course tokens are preserved exactly. For every clause with a       *)
(* course token, the COURSE leaves of the tree parse_clause_into_group     *)
(* returns, read from left to right, are the course tokens the scanner     *)
(* finds in the clause, in the order of the text, none dropped and a       *)
(* repeated token kept at as many leaves: on the one-of path, on the flat  *)
(* AND and OR paths and on the mixed path.                                 *)
(***************************************************************************)
C20_TokensPreserved ==
    \A i \in 1..Len(grps) :
        LET spans == find_course_spans(clauses[i])
        IN  spans # <<>> => Leaves(grps[i]) = Refs(spans)

\* a mixed clause whose segments are scanned again, with a token written
\* three times and kept at three leaves
C20_Witness ==
    \E i \in 1..Len(grps) :
        LET f == Facts(clauses[i])
        IN  /\ TakesMixed(f)
            /\ Len(TokenSegments(clauses[i])) = 2
            /\ Len(f.spans) = 4
            /\ Cardinality(Range(Refs(f.spans))) = 2
            /\ Leaves(grps[i]) = Refs(f.spans)

(***************************************************************************)
(* fetch_uiuc_courses.main from the point where subject_ids is known.      *)
(***************************************************************************)
\* the number of subjects of the catalog
MaxSubjects == 2

\* the number of courses the catalog lists under a subject
MaxCourses == 2

\* the subject ids of the catalog: "CS", "EE" and "ME"
SubjectList == << <<"C", "S">>, <<"E", "E">>, <<"M", "E">> >>

\* the id attributes of the course nodes: "101", "20" and "HON"
CourseNumbers == { <<"1", "0", "1">>, <<"2", "0">>, <<"H", "O", "N">> }

\* the lists of at most n course numbers
RECURSIVE NumberLists(_)
NumberLists(n) ==
    IF n = 0 THEN {<<>>}
    ELSE NumberLists(n - 1) \cup
         {Append(l, c) : l \in {x \in NumberLists(n - 1) : Len(x) = n - 1},
                         c \in CourseNumbers}

\* CourseRecord(index=f"{subject} {course_number}", ...); the name, the
\* description and the prerequisites text are carried along and not read
CourseRecord(subject, course_number) ==
    [index |-> subject \o <<" ">> \o course_number]

RECURSIVE Words(_)
\* str.split(): the runs of characters other than whitespace
Words(s) ==
    LET t == StripLeft(s)
    IN  IF t = <<>> THEN <<>>
        ELSE <<SubSeq(t, 1, WordLen(t, 0))>>
             \o Words(SubSeq(t, WordLen(t, 0) + 1, Len(t)))

\* the characters of the indices in the order of their code points
CodePoints == <<" ", "0", "1", "2", "3", "4", "5", "6", "7", "8", "9",
                "A", "B", "C", "D", "E", "F", "G", "H", "I", "J", "K", "L", "M",
                "N", "O", "P", "Q", "R", "S", "T", "U", "V", "W", "X", "Y", "Z">>

\* ord(c)
Ord(c) == CHOOSE i \in 1..Len(CodePoints) : CodePoints[i] = c

RECURSIVE StrLess(_, _)
\* a < b for two strings
StrLess(a, b) ==
    IF b = <<>> THEN FALSE
    ELSE IF a = <<>> THEN TRUE
    ELSE IF Head(a) = Head(b) THEN StrLess(Tail(a), Tail(b))
    ELSE Ord(Head(a)) < Ord(Head(b))

RECURSIVE IntOf(_, _)
\* int(s) for a string of digits, read after the value acc
IntOf(s, acc) ==
    IF s = <<>> THEN acc ELSE IntOf(Tail(s), 10 * acc + (Ord(Head(s)) - Ord("0")))

\* the sort key of a record: (r.index.split()[0], int(re.sub(r"[^0-9]", "",
\* r.index.split()[1])) if len(r.index.split()) > 1 and re.search(r"\d",
\* r.index.split()[1]) else r.index): the second component is an int when the
\* second word has a digit and the str r.index when it has not
SortKey(r) ==
    LET words == Words(r.index)
    IN  <<words[1],
          IF Len(words) > 1 /\ \E i \in 1..Len(words[2]) : words[2][i] \in DigitChars
          THEN [type |-> "int",
                int |-> IntOf(SelectSeq(words[2], LAMBDA c : c \in DigitChars), 0)]
          ELSE [type |-> "str", str |-> r.index]>>

\* x < y raises TypeError: the first components are equal and the second are
\* an int and a str
Incomparable(x, y) == x[1] = y[1] /\ x[2].type # y[2].type

\* x < y for two comparable keys
KeyLess(x, y) ==
    IF x[1] # y[1] THEN StrLess(x[1], y[1])
    ELSE IF x[2].type = "int" THEN x[2].int < y[2].int
    ELSE StrLess(x[2].str, y[2].str)

RECURSIVE InsertByKey(_, _)
\* r put before the first record of the sorted list whose key is greater
InsertByKey(sorted, r) ==
    IF sorted = <<>> THEN <<r>>
    ELSE IF KeyLess(SortKey(r), SortKey(Head(sorted))) THEN <<r>> \o sorted
    ELSE <<Head(sorted)>> \o InsertByKey(Tail(sorted), r)

\* the records left in the order they were collected in
SortedByKey_as_collected(records) == records

RECURSIVE SortedByKey(_)
\* list.sort(key=...): stable, ascending
SortedByKey(records) ==
    IF records = <<>> THEN <<>>
    ELSE InsertByKey(SortedByKey(SubSeq(records, 1, Len(records) - 1)),
                     records[Len(records)])

\* the sort has to compare two keys that cannot be compared
SortRaises(records) ==
    \E i, j \in 1..Len(records) : Incomparable(SortKey(records[i]), SortKey(records[j]))

\* the parsing scripts are not part of the run
NoParse ==
    /\ text = <<>>
    /\ pc = "none"
    /\ raw = <<>>
    /\ clauses = <<>>
    /\ ci = 1
    /\ grps = <<>>
    /\ hard_groups = <<>>
    /\ coreq_groups = <<>>
    /\ ast = <<>>
    /\ flags = <<>>
    /\ bucket = ""
    /\ out = <<>>
    /\ graph = <<>>
    /\ notes = <<>>
    /\ G = <<>>
    /\ R = <<>>

\* executor.submit(process_subject, subject_id) for each subject
InitFetch ==
    /\ NoParse
    /\ subject_ids \in {SubSeq(SubjectList, 1, n) :
                           n \in 1..(IF MaxSubjects < 3 THEN MaxSubjects ELSE 3)}
    /\ catalog \in [1..Len(subject_ids) -> NumberLists(MaxCourses)]
    /\ futures = [k \in 1..Len(subject_ids) |->
                     [state |-> "submitted", course_numbers |-> <<>>, n |-> 0,
                      subject_records |-> <<>>, warned |-> <<>>]]
    /\ all_course_records = <<>>
    /\ fetched = <<>>
    /\ written = <<>>
    /\ exit_status = "running"
    /\ completed = <<>>

\* the state of a call of process_subject that has dealt with n of its courses
After(courses, n) == IF n >= Len(courses) THEN "returned" ELSE "details"

\* course_numbers = get_course_numbers_for_subject(...)
ListCourses ==
    \E k \in 1..Len(futures) :
        /\ futures[k].state = "submitted"
        /\ futures' = [futures EXCEPT ![k].course_numbers = catalog[k],
                                      ![k].state = After(catalog[k], 0)]
        /\ UNCHANGED <<subject_ids, catalog, all_course_records, fetched, written,
                       exit_status, completed, parseVars>>

\* get_course_numbers_for_subject raises: the warning and return []
ListCoursesFails ==
    \E k \in 1..Len(futures) :
        /\ futures[k].state = "submitted"
        /\ futures' = [futures EXCEPT ![k].warned = Append(@, [failed |-> "list"]),
                                      ![k].state = "returned"]
        /\ UNCHANGED <<subject_ids, catalog, all_course_records, fetched, written,
                       exit_status, completed, parseVars>>

\* record = get_course_details(...); subject_records.append(record)
GetDetails ==
    \E k \in 1..Len(futures) :
        /\ futures[k].state = "details"
        /\ LET f == futures[k]
               record == CourseRecord(subject_ids[k], f.course_numbers[f.n + 1])
           IN  /\ futures' = [futures EXCEPT
                                 ![k].subject_records = Append(@, record),
                                 ![k].n = f.n + 1,
                                 ![k].state = After(f.course_numbers, f.n + 1)]
               /\ fetched' = Append(fetched, record)
        /\ UNCHANGED <<subject_ids, catalog, all_course_records, written,
                       exit_status, completed, parseVars>>

\* get_course_details raises: the warning and continue
GetDetailsFails ==
    \E k \in 1..Len(futures) :
        /\ futures[k].state = "details"
        /\ LET f == futures[k]
           IN  futures' = [futures EXCEPT
                              ![k].warned = Append(@, [failed |-> "details",
                                                      course_number |-> f.course_numbers[f.n + 1]]),
                              ![k].n = f.n + 1,
                              ![k].state = After(f.course_numbers, f.n + 1)]
        /\ UNCHANGED <<subject_ids, catalog, all_course_records, fetched, written,
                       exit_status, completed, parseVars>>

\* one turn of the loop over as_completed: all_course_records.extend(
\* future.result())
Collect ==
    \E k \in 1..Len(futures) :
        /\ futures[k].state = "returned"
        /\ all_course_records' = all_course_records \o futures[k].subject_records
        /\ futures' = [futures EXCEPT ![k].state = "collected"]
        /\ completed' = Append(completed, k)
        /\ UNCHANGED <<subject_ids, catalog, fetched, written, exit_status, parseVars>>

\* all_course_records.sort(key=...), json.dump and return 0; an exception of
\* the sort ends the process with status 1 before anything is written
SortAndWrite ==
    /\ exit_status = "running"
    /\ \A k \in 1..Len(futures) : futures[k].state = "collected"
    /\ IF SortRaises(all_course_records)
       THEN /\ exit_status' = "1"
            /\ UNCHANGED <<all_course_records, written>>
       ELSE /\ all_course_records' = SortedByKey(all_course_records)
            /\ written' = Append(written, all_course_records')
            /\ exit_status' = "0"
    /\ UNCHANGED <<subject_ids, catalog, futures, fetched, completed, parseVars>>

NextFetch ==
    \/ ListCourses
    \/ ListCoursesFails
    \/ GetDetails
    \/ GetDetailsFails
    \/ Collect
    \/ SortAndWrite

SpecFetch == InitFetch /\ [][NextFetch]_vars

\* the number of the elements of the list xs equal to x
Occurrences(xs, x) == Cardinality({i \in 1..Len(xs) : xs[i] = x})

(***************************************************************************)
(* C19: fetch failures are isolated. Once the subject list is known, a     *)
(* failure while listing a subject's courses or while fetching a course's  *)
(* details is reported and skipped, the other subjects and courses are     *)
(* still processed, every record fetched appears in the written output     *)
(* exactly once, and the run ends with exit status 0.                      *)
(***************************************************************************)
C19_FailuresIsolated ==
    exit_status # "running" =>
        /\ exit_status = "0"
        /\ \A k \in 1..Len(futures) :
              \/ futures[k].warned = <<[failed |-> "list"]>>
              \/ Len(futures[k].subject_records) + Len(futures[k].warned)
                    = Len(catalog[k])
        /\ Len(written) = 1
        /\ \A r \in Range(fetched) \cup Range(written[1]) :
              Occurrences(written[1], r) = Occurrences(fetched, r)

(***************************************************************************)
(* build_final_parsed.main: the notes kept beside the trees.               *)
(***************************************************************************)
\* the number of fragments of a text with notes
MaxNoteLex == 5

\* "CS 21", "EE30 senior", "see  advisor" with two blanks, ";" and " "
NoteLexemes == {
    <<"C", "S", " ", "2", "1">>,
    <<"E", "E", "3", "0", " ", "s", "e", "n", "i", "o", "r">>,
    <<"s", "e", "e", " ", " ", "a", "d", "v", "i", "s", "o", "r">>,
    <<";">>,
    <<" ">> }

NoteTexts == {Flatten(ls) : ls \in UNION {[1..n -> NoteLexemes] : n \in 0..MaxNoteLex}}

\* COURSE_TOKEN.search(s) is not None
has_course_token(s) == find_course_spans(s) # <<>>

\* [s.strip() for s in pieces if s.strip()]
RECURSIVE StrippedNonEmpty(_)
StrippedNonEmpty(pieces) ==
    IF pieces = <<>> THEN <<>>
    ELSE KeepNonEmpty(Strip(Head(pieces))) \o StrippedNonEmpty(Tail(pieces))

\* a clause is kept when it has a course token but no flag word either
NoteWorthy_without_token(cl) == ~has_course_token(cl)

\* not has_course_token(cl) or detect_flags(cl)
NoteWorthy(cl) == ~has_course_token(cl) \/ detect_flags(cl) # <<>>

\* the notes of a record with the text r
NotesOf(r) ==
    IF r # <<>>
    THEN SelectSeq(StrippedNonEmpty(SplitRuns(r, ";", 0, <<>>)), NoteWorthy)
    ELSE <<>>

\* raw or None
RawOrNone(r) == IF r # <<>> THEN r ELSE None

\* the notes and the flags of the record, once the text is parsed
CollectNotes ==
    /\ pc = "parsed"
    /\ notes' = NotesOf(raw)
    /\ flags' = IF raw # <<>> THEN detect_flags(raw) ELSE <<>>
    /\ pc' = "done"
    /\ UNCHANGED <<text, raw, clauses, ci, grps, hard_groups, coreq_groups, ast,
                   bucket, out, graph, G, R, fetchVars>>

InitNotes ==
    /\ text \in NoteTexts
    /\ pc = "start"
    /\ raw = <<>>
    /\ clauses = <<>>
    /\ ci = 1
    /\ grps = <<>>
    /\ hard_groups = <<>>
    /\ coreq_groups = <<>>
    /\ ast = <<>>
    /\ flags = <<>>
    /\ bucket = ""
    /\ out = <<>>
    /\ graph = <<>>
    /\ notes = <<>>
    /\ G = <<>>
    /\ R = <<>>
    /\ NoFetch

NextNotes == Split \/ ParseClause \/ Fold \/ CollectNotes

SpecNotes == InitNotes /\ [][NextNotes]_vars

\* the pieces of the text that are to be in the notes: those without a course
\* token and those with a flag word
NotedPieces ==
    SelectSeq(RawPieces, LAMBDA c : ~HasToken(c) \/ detect_flags(c) # <<>>)

(***************************************************************************)
(* C21: notes retention. For a non-empty raw text the notes are, in the    *)
(* order of the clauses, exactly the non-empty semicolon-delimited clauses *)
(* that have no course token or trigger a flag; a clause with a course     *)
(* token and no flag is never in the notes; for an empty raw text the      *)
(* notes are empty, the flags are empty and raw is null.                   *)
(***************************************************************************)
C21_NotesRetention ==
    pc = "done" =>
        IF raw # <<>>
        THEN /\ Len(notes) = Len(NotedPieces)
             /\ \A i \in 1..Len(notes) : notes[i] = Strip(NotedPieces[i])
             /\ \A c \in Range(RawPieces) :
                   (HasToken(c) /\ detect_flags(c) = <<>>) => Strip(c) \notin Range(notes)
             /\ RawOrNone(raw) = raw
        ELSE /\ notes = <<>>
             /\ flags = <<>>
             /\ RawOrNone(raw) = None

\* three clauses: a course alone, left out; a course with a standing, kept;
\* words without a course, kept with their two blanks
C21_Witness ==
    /\ pc = "done"
    /\ Len(RawPieces) = 3
    /\ Len(notes) = 2
    /\ HasToken(RawPieces[1])
    /\ HasToken(notes[1])
    /\ ~HasToken(notes[2])
    /\ notes[2] # normalize_space(notes[2])

MaxTasks == 2

\* the course lists of the subjects of the pool: none, "20", "101" before
\* "20", and "20" before "HON"
PoolLists == {
    <<>>,
    << <<"2", "0">> >>,
    << <<"1", "0", "1">>, <<"2", "0">> >>,
    << <<"2", "0">>, <<"H", "O", "N">> >> }

InitPool ==
    /\ NoParse
    /\ subject_ids \in {SubSeq(SubjectList, 1, n) :
                           n \in 1..(IF MaxTasks < 3 THEN MaxTasks ELSE 3)}
    /\ catalog \in [1..Len(subject_ids) -> PoolLists]
    /\ futures = [k \in 1..Len(subject_ids) |->
                     [state |-> "submitted", course_numbers |-> <<>>, n |-> 0,
                      subject_records |-> <<>>, warned |-> <<>>]]
    /\ all_course_records = <<>>
    /\ fetched = <<>>
    /\ written = <<>>
    /\ exit_status = "running"
    /\ completed = <<>>

SpecPool == InitPool /\ [][NextFetch]_vars

RECURSIVE ResultsFrom(_)
\* the records the calls of process_subject from the k-th on have returned,
\* in the order of subject_ids
ResultsFrom(k) ==
    IF k > Len(futures) THEN <<>>
    ELSE futures[k].subject_records \o ResultsFrom(k + 1)

(***************************************************************************)
(* C23: the output of the fetcher does not depend on the interleaving of   *)
(* the threads. For fixed subjects and fixed results of each subject's     *)
(* fetches, the sequence of records written to the output file is the same *)
(* whatever order the subject tasks complete in.                           *)
(***************************************************************************)
C23_OrderIndependent ==
    exit_status # "running" =>
        written = IF SortRaises(ResultsFrom(1)) THEN <<>>
                  ELSE <<SortedByKey(ResultsFrom(1))>>

\* the second subject's task is collected before the first's, and the file
\* starts with the first subject's course of the lower number, fetched second
C23_Witness ==
    /\ exit_status = "0"
    /\ Len(completed) >= 2
    /\ completed[1] = 2
    /\ completed[2] = 1
    /\ Len(futures[1].subject_records) = 2
    /\ futures[2].subject_records # <<>>
    /\ written[1][1] = futures[1].subject_records[2]

(***************************************************************************)
(* reduce_and_cluster.py: the hard prerequisite graph and its reduction    *)
(***************************************************************************)

\* the largest number of courses of a graph.json
MaxNodes == 3

\* the ids of the courses of a graph.json: "EE 3", "CS 2", "ME 4", "CS 1",
\* "EE 5", not in the order of the strings
NodeIds == << <<"E", "E", " ", "3">>, <<"C", "S", " ", "2">>,
              <<"M", "E", " ", "4">>, <<"C", "S", " ", "1">>,
              <<"E", "E", " ", "5">> >>

RECURSIVE EdgeList(_, _)
\* the "edges" of a graph.json with the hard edges of the pairs H, from the
\* k-th pair on, and one corequisite edge from the last course to the first;
\* k counts the pairs of positions of NodeIds row by row
EdgeList(H, k) ==
    IF k > MaxNodes * MaxNodes
    THEN << [source |-> NodeIds[MaxNodes], target |-> NodeIds[1], kind |-> "coreq"] >>
    ELSE (IF k \in H
          THEN << [source |-> NodeIds[((k - 1) \div MaxNodes) + 1],
                   target |-> NodeIds[((k - 1) % MaxNodes) + 1],
                   kind |-> "hard"] >>
          ELSE <<>>) \o EdgeList(H, k + 1)

\* nodes, edges = load_graph(args.input): a graph.json that lists every
\* course or all but the last, with any hard edges between two courses and
\* possibly a self-loop of the first course
InitReduce ==
    /\ text = <<>>
    /\ pc = "loaded"
    /\ raw = <<>>
    /\ clauses = <<>>
    /\ ci = 1
    /\ grps = <<>>
    /\ hard_groups = <<>>
    /\ coreq_groups = <<>>
    /\ ast = <<>>
    /\ flags = <<>>
    /\ bucket = ""
    /\ out = <<>>
    /\ \E n \in {MaxNodes - 1, MaxNodes},
          H \in SUBSET {k \in 1..(MaxNodes * MaxNodes) :
                            k = 1 \/ (k - 1) \div MaxNodes # (k - 1) % MaxNodes} :
           graph = [nodes |-> [i \in 1..n |-> [id |-> NodeIds[i]]],
                    edges |-> EdgeList(H, 1)]
    /\ notes = <<>>
    /\ G = <<>>
    /\ R = <<>>
    /\ NoFetch

\* directed_hard_graph: G.add_node for each node, G.add_edge for each edge of
\* kind "hard" (which adds its ends too), and the self-loops removed
directed_hard_graph(nodes, edges) ==
    LET added == {<<edges[i].source, edges[i].target>> :
                      i \in {j \in 1..Len(edges) : edges[j].kind = "hard"}}
    IN  [nodes |-> {nodes[i].id : i \in 1..Len(nodes)}
                       \cup {e[1] : e \in added} \cup {e[2] : e \in added},
         edges |-> {e \in added : e[1] # e[2]}]

\* G.successors(u) for the edges E
Successors(E, u) == {e[2] : e \in {d \in E : d[1] = u}}

RECURSIVE Grow(_, _)
\* the nodes of S and those the edges E lead to from them
Grow(E, S) ==
    LET T == S \cup UNION {Successors(E, u) : u \in S}
    IN  IF T = S THEN S ELSE Grow(E, T)

\* the nodes one or more edges of E lead to from u
Descendants(E, u) == Grow(E, Successors(E, u))

\* the strongly connected component of v: v and the nodes that reach v and
\* are reached from it
Component(E, nodes, v) ==
    {v} \cup {w \in nodes : w \in Descendants(E, v) /\ v \in Descendants(E, w)}

\* nx.transitive_reduction of an acyclic graph: of the successors of u, those
\* that are not descendants of a successor of u
transitive_reduction(nodes, E) ==
    UNION {{<<u, v>> : v \in Successors(E, u)
                           \ UNION {Descendants(E, w) : w \in Successors(E, u)}}
               : u \in nodes}

\* sorted(reps)[0]: the pair of strings that is less than every other
FirstSorted(reps) ==
    CHOOSE p \in reps :
        \A q \in reps \ {p} :
            \/ StrLess(p[1], q[1])
            \/ (p[1] = q[1] /\ StrLess(p[2], q[2]))

\* the reduction applied to the graph itself, components not collapsed
transitive_reduction_with_scc_not_collapsed(g) ==
    [nodes |-> g.nodes, edges |-> transitive_reduction(g.nodes, g.edges)]

\* transitive_reduction_with_scc: the edges inside the components of more
\* than one node, and for each edge of the reduced component graph the first
\* of the original edges between the two components
transitive_reduction_with_scc(g) ==
    LET comp_id_of == [v \in g.nodes |-> Component(g.edges, g.nodes, v)]
        sccs == {comp_id_of[v] : v \in g.nodes}
        cross == {e \in g.edges : comp_id_of[e[1]] # comp_id_of[e[2]]}
        CG == {<<comp_id_of[e[1]], comp_id_of[e[2]]>> : e \in cross}
        TR_CG == IF CG # {} THEN transitive_reduction(sccs, CG) ELSE CG
        original_cross_edges(c) ==
            {e \in cross : comp_id_of[e[1]] = c[1] /\ comp_id_of[e[2]] = c[2]}
        inside == {e \in g.edges : /\ Cardinality(comp_id_of[e[1]]) # 1
                                   /\ e[2] \in comp_id_of[e[1]]}
    IN  [nodes |-> g.nodes,
         edges |-> inside
                   \cup {FirstSorted(original_cross_edges(c)) :
                             c \in {d \in TR_CG : original_cross_edges(d) # {}}}]

\* G = directed_hard_graph(nodes, edges)
DirectedHardGraph ==
    /\ pc = "loaded"
    /\ G' = directed_hard_graph(graph.nodes, graph.edges)
    /\ pc' = "hard"
    /\ UNCHANGED <<text, raw, clauses, ci, grps, hard_groups, coreq_groups, ast,
                   flags, bucket, out, graph, notes, R, fetchVars>>

\* R = transitive_reduction_with_scc(G)
Reduce ==
    /\ pc = "hard"
    /\ R' = transitive_reduction_with_scc(G)
    /\ pc' = "reduced"
    /\ UNCHANGED <<text, raw, clauses, ci, grps, hard_groups, coreq_groups, ast,
                   flags, bucket, out, graph, notes, G, fetchVars>>

NextReduce == DirectedHardGraph \/ Reduce

SpecReduce == InitReduce /\ [][NextReduce]_vars

\* the strongly connected components of G of more than one node
Cycles ==
    {c \in {Component(G.edges, G.nodes, v) : v \in G.nodes} : Cardinality(c) > 1}

(***************************************************************************)
(* C24: transitive reduction preserves reachability. For the graph G of    *)
(* the hard edges, self-loops removed and cycles allowed, the graph R that *)
(* transitive_reduction_with_scc returns has the nodes of G, every edge of *)
(* R is an edge of G, and for all nodes u and v there is a path of one or  *)
(* more edges from u to v in R if and only if there is one in G.           *)
(***************************************************************************)
C24_ReachabilityPreserved ==
    pc = "reduced" =>
        /\ R.nodes = G.nodes
        /\ R.edges \subseteq G.edges
        /\ \A u \in G.nodes : Descendants(R.edges, u) = Descendants(G.edges, u)

\* the graph has a cycle, an edge into the cycle from outside, and the
\* reduction has dropped an edge; the input had a self-loop and named a
\* course only as the end of an edge
C24_Witness ==
    /\ pc = "reduced"
    /\ Cycles # {}
    /\ \E e \in G.edges : \E c \in Cycles : e[1] \notin c /\ e[2] \in c
    /\ R.edges # G.edges
    /\ \E i \in 1..Len(graph.edges) :
           graph.edges[i].kind = "hard" /\ graph.edges[i].source = graph.edges[i].target
    /\ Cardinality(G.nodes) > Len(graph.nodes)

====
